---- MODULE Spec2Model ----
(***************************************************************************)
(* Terminal session engine of term66.py (class TerminalWidget): the escape *)
(* sequence interpreter, the process supervisor and the input line         *)
(* discipline.  Rendered text, chunks and writes are sequences of          *)
(* one-character strings; the fixed body of a diagnostic message is one    *)
(* glyph (it contains no escape introducer, so the interpreter copies it). *)
(***************************************************************************)
EXTENDS Integers, Sequences, FiniteSets, TLC

VARIABLES text, cursor_pos, cursor_anchor, input_start_pos, current_format,
          process_running, restart_count, last_started, proc_state, now,
          prev_attempt, prev_refused, streak, spaced, scheduled, closed,
          current_font, stream, last

vars == <<text, cursor_pos, cursor_anchor, input_start_pos, current_format,
          process_running, restart_count, last_started, proc_state, now,
          prev_attempt, prev_refused, streak, spaced, scheduled, closed,
          current_font, stream, last>>

(* ---------------------------- bounds ----------------------------------- *)
MaxText == 4
MaxSupText == 12
ExampleLen == 16
StartTime == 2
MaxTime == 6
MaxSupTime == 7
MaxLifeText == 7
MaxPlain == 1
MaxSgrLen == 2
MaxCode == 108

(* ---------------------------- characters ------------------------------- *)
ESC == "ESC"
BEL == "BEL"
NL == "\n"
Digits == {"0", "1", "2", "3", "4", "5", "6", "7", "8", "9"}

DigitVal(c) ==
  CASE c = "0" -> 0 [] c = "1" -> 1 [] c = "2" -> 2 [] c = "3" -> 3
    [] c = "4" -> 4 [] c = "5" -> 5 [] c = "6" -> 6 [] c = "7" -> 7
    [] c = "8" -> 8 [] c = "9" -> 9

(* ---------------------------- style state ------------------------------ *)
DEFAULT_FG_COLOR == "white"
DEFAULT_BG_COLOR == "black"

BaseColor(i) ==
  CASE i = 0 -> "black" [] i = 1 -> "#CD0000" [] i = 2 -> "#00CD00"
    [] i = 3 -> "#CDCD00" [] i = 4 -> "#0000EE" [] i = 5 -> "#CD00CD"
    [] i = 6 -> "#00CDCD" [] i = 7 -> "#E5E5E5"

BrightColor(i) ==
  CASE i = 0 -> "#7F7F7F" [] i = 1 -> "red" [] i = 2 -> "green"
    [] i = 3 -> "yellow" [] i = 4 -> "blue" [] i = 5 -> "magenta"
    [] i = 6 -> "cyan" [] i = 7 -> "white"

ColorCodes == (30..37) \cup {39} \cup (40..47) \cup {49} \cup (90..97) \cup (100..107)

\* the background codes 40-47 given the colours of 100-107
ANSI_SGR_CODES_TO_COLORS_BrightBg(code) ==
  CASE code \in 30..37 -> BaseColor(code - 30)
    [] code = 39 -> DEFAULT_FG_COLOR
    [] code \in 40..47 -> BrightColor(code - 40)
    [] code = 49 -> DEFAULT_BG_COLOR
    [] code \in 90..97 -> BrightColor(code - 90)
    [] code \in 100..107 -> BrightColor(code - 100)

ANSI_SGR_CODES_TO_COLORS(code) ==
  CASE code \in 30..37 -> BaseColor(code - 30)
    [] code = 39 -> DEFAULT_FG_COLOR
    [] code \in 40..47 -> BaseColor(code - 40)
    [] code = 49 -> DEFAULT_BG_COLOR
    [] code \in 90..97 -> BrightColor(code - 90)
    [] code \in 100..107 -> BrightColor(code - 100)

\* a QFont by the properties the character format takes from it
DEFAULT_FONT == [bold |-> FALSE, italic |-> FALSE, underline |-> FALSE]
Fonts == {DEFAULT_FONT, [bold |-> TRUE, italic |-> TRUE, underline |-> TRUE]}

\* weight, italic and underline left as they were taken from the font
ResetCharFormatWith_FontOnly(f, font) ==
  [fg |-> DEFAULT_FG_COLOR, bg |-> DEFAULT_BG_COLOR,
   bold |-> font.bold, italic |-> font.italic, underline |-> font.underline]

\* _reset_char_format_to_default with self.current_font = font: the colours,
\* then weight, italic and underline from the font, then these three again
ResetCharFormatWith(f, font) ==
  LET g == [fg |-> DEFAULT_FG_COLOR, bg |-> DEFAULT_BG_COLOR,
            bold |-> font.bold, italic |-> font.italic,
            underline |-> font.underline]
  IN [g EXCEPT !.bold = FALSE, !.italic = FALSE, !.underline = FALSE]

ResetCharFormat(f) == ResetCharFormatWith(f, current_font)

ApplySgrCode(f, code) ==
  IF code = 0 THEN ResetCharFormat(f)
  ELSE IF code = 1 THEN [f EXCEPT !.bold = TRUE]
  ELSE IF code = 3 THEN [f EXCEPT !.italic = TRUE]
  ELSE IF code = 4 THEN [f EXCEPT !.underline = TRUE]
  ELSE IF code \in ColorCodes THEN
    IF code \in 30..37 \/ code \in 90..97 \/ code = 39
      THEN [f EXCEPT !.fg = ANSI_SGR_CODES_TO_COLORS(code)]
    ELSE IF code \in 40..47 \/ code \in 100..107 \/ code = 49
      THEN [f EXCEPT !.bg = ANSI_SGR_CODES_TO_COLORS(code)]
    ELSE f
  ELSE IF code = 22 THEN [f EXCEPT !.bold = FALSE]
  ELSE IF code = 23 THEN [f EXCEPT !.italic = FALSE]
  ELSE IF code = 24 THEN [f EXCEPT !.underline = FALSE]
  ELSE f

(* ---------------------------- SGR parameter list ----------------------- *)
RECURSIVE SplitSemi(_)
SplitSemi(s) ==
  IF \A k \in 1..Len(s) : s[k] # ";" THEN <<s>>
  ELSE LET k == CHOOSE j \in 1..Len(s) :
                  s[j] = ";" /\ \A h \in 1..(j - 1) : s[h] # ";"
       IN <<SubSeq(s, 1, k - 1)>> \o SplitSemi(SubSeq(s, k + 1, Len(s)))

IsInt(part) == Len(part) > 0 /\ \A k \in 1..Len(part) : part[k] \in Digits

RECURSIVE ParseInt(_)
ParseInt(part) ==
  IF Len(part) = 0 THEN 0
  ELSE 10 * ParseInt(SubSeq(part, 1, Len(part) - 1)) + DigitVal(part[Len(part)])

SgrParts(sgr) == IF Len(sgr) > 0 THEN SplitSemi(sgr) ELSE << <<"0">> >>

\* nothing consumed after 38 or 48
ExtendedSkip_None(parts, idx) == 0

\* number of extra parameters consumed by an extended-colour code at idx
ExtendedSkip(parts, idx) ==
  IF idx + 1 <= Len(parts) THEN
    IF IsInt(parts[idx + 1]) THEN
      LET color_mode == ParseInt(parts[idx + 1]) IN
        IF color_mode = 5 THEN (IF idx + 2 <= Len(parts) THEN 2 ELSE 0)
        ELSE IF color_mode = 2 THEN (IF idx + 4 <= Len(parts) THEN 4 ELSE 0)
        ELSE 1
    ELSE 0
  ELSE 0

\* the rest of the list given up at the token that is not a number
AfterMalformed_Abort(parts, idx) == Len(parts) + 1

\* "except ValueError: idx += 1; continue"
AfterMalformed(parts, idx) == idx + 1

RECURSIVE SgrLoop(_, _, _)
SgrLoop(f, parts, idx) ==
  IF idx > Len(parts) THEN f
  ELSE LET part == parts[idx] IN
    IF Len(part) > 0 /\ ~IsInt(part) THEN SgrLoop(f, parts, AfterMalformed(parts, idx))
    ELSE LET code == IF Len(part) = 0 THEN 0 ELSE ParseInt(part) IN
      IF code = 38 \/ code = 48
        THEN SgrLoop(f, parts, idx + ExtendedSkip(parts, idx) + 1)
        ELSE SgrLoop(ApplySgrCode(f, code), parts, idx + 1)

(* ---------------------------- escape sequence regex -------------------- *)
SgrParamChars == Digits \cup {";", "?"}
CsiParamChars == Digits \cup {";"}

At(s, i) == IF i >= 1 /\ i <= Len(s) THEN s[i] ELSE "EOF"

\* first index j >= i whose character is outside class (Len(s) + 1 at the end)
RunEnd(s, i, class) ==
  CHOOSE j \in i..(Len(s) + 1) :
    /\ \A k \in i..(j - 1) : s[k] \in class
    /\ (j = Len(s) + 1 \/ s[j] \notin class)

\* first index j >= i whose character is in stop (Len(s) + 1 at the end)
RunEndNot(s, i, stop) ==
  CHOOSE j \in i..(Len(s) + 1) :
    /\ \A k \in i..(j - 1) : s[k] \notin stop
    /\ (j = Len(s) + 1 \/ s[j] \in stop)

\* a title payload allowed to contain ESC
OscStop_BelOnly == {BEL}

\* the payload class [^\x07\x1b] ends at these
OscStop == {BEL, ESC}

NoMatch == [kind |-> "none", end |-> 0, p |-> <<>>, c |-> <<>>]

\* the alternatives of ansi_escape_regex tried in order at an ESC at index i;
\* end is the index of the first character after the match
MatchAt(s, i) ==
  LET a == At(s, i + 1)
      j1 == RunEnd(s, i + 2, SgrParamChars)
      j2 == RunEndNot(s, i + 4, OscStop)
      j3 == RunEnd(s, i + 2, CsiParamChars)
  IN
  IF At(s, i) # ESC THEN NoMatch
  ELSE IF a = "[" /\ At(s, j1) = "m"
    THEN [kind |-> "sgr", end |-> j1 + 1, p |-> SubSeq(s, i + 2, j1 - 1), c |-> <<>>]
  ELSE IF a = "]" /\ At(s, i + 2) \in {"0", "1", "2"} /\ At(s, i + 3) = ";"
          /\ (At(s, j2) = BEL \/ (At(s, j2) = ESC /\ At(s, j2 + 1) = "\\"))
    THEN [kind |-> "osc", end |-> IF At(s, j2) = BEL THEN j2 + 1 ELSE j2 + 2,
          p |-> <<At(s, i + 2)>>, c |-> SubSeq(s, i + 4, j2 - 1)]
  ELSE IF a = "[" /\ At(s, j3) \in {"H", "J", "K"}
    THEN [kind |-> "csi", end |-> j3 + 1, p |-> SubSeq(s, i + 2, j3 - 1), c |-> <<At(s, j3)>>]
  ELSE IF a \in {"(", ")"} /\ At(s, i + 2) \in {"0", "1", "2", "A", "B"}
    THEN [kind |-> "charset", end |-> i + 3, p |-> <<>>, c |-> <<>>]
  ELSE IF a \in {"E", "N", "O", "M"}
    THEN [kind |-> "mode", end |-> i + 2, p |-> <<>>, c |-> <<>>]
  ELSE IF a \in {"=", ">"}
    THEN [kind |-> "keypad", end |-> i + 2, p |-> <<>>, c |-> <<>>]
  ELSE NoMatch

\* finditer: index of the next match at or after from, 0 when there is none
NextMatch(s, from) ==
  IF \E i \in from..Len(s) : MatchAt(s, i).kind # "none"
    THEN CHOOSE i \in from..Len(s) :
           /\ MatchAt(s, i).kind # "none"
           /\ \A k \in from..(i - 1) : MatchAt(s, k).kind = "none"
    ELSE 0

(* ---------------------------- append_ansi_text ------------------------- *)
\* d = [text, fmt, titles, runs]: the document, current_format, the
\* titleChanged emissions and the insertPlainText calls made, each with the
\* character format set for it

\* the segment inserted without setCurrentCharFormat(self.current_format)
InsertPlainText_Unformatted(d, seg) ==
  IF Len(seg) = 0 THEN d
  ELSE [d EXCEPT !.text = d.text \o seg,
                 !.runs = Append(d.runs, [txt |-> seg, fmt |-> ResetCharFormat(d.fmt)])]

\* a segment that begins with an escape introducer dropped
InsertPlainText_SkipEsc(d, seg) ==
  IF Len(seg) = 0 \/ seg[1] = ESC THEN d
  ELSE [d EXCEPT !.text = d.text \o seg,
                 !.runs = Append(d.runs, [txt |-> seg, fmt |-> d.fmt])]

InsertPlainText(d, seg) ==
  IF Len(seg) = 0 THEN d
  ELSE [d EXCEPT !.text = d.text \o seg,
                 !.runs = Append(d.runs, [txt |-> seg, fmt |-> d.fmt])]

\* every erase-display sequence taken for the clear-screen one
IsClearScreen_AnyJ(m) == m.kind = "csi" /\ m.c = <<"J">>

\* csi_c == 'J' and csi_p == '2'
IsClearScreen(m) == m.kind = "csi" /\ m.c = <<"J">> /\ m.p = <<"2">>

ApplyMatch(d, m) ==
  IF m.kind = "sgr"
    THEN [d EXCEPT !.fmt = SgrLoop(d.fmt, SgrParts(m.p), 1)]
  ELSE IF m.kind = "osc" /\ Len(m.c) > 0
    THEN [d EXCEPT !.titles = Append(d.titles, m.c)]
  ELSE IF IsClearScreen(m)
    THEN [d EXCEPT !.text = <<>>, !.fmt = ResetCharFormat(d.fmt)]
  ELSE d

RECURSIVE RenderFrom(_, _, _)
RenderFrom(d, s, lastEnd) ==
  LET i == NextMatch(s, lastEnd) IN
    IF i = 0
      THEN InsertPlainText(d, SubSeq(s, lastEnd, Len(s)))
      ELSE LET m == MatchAt(s, i)
               d1 == InsertPlainText(d, SubSeq(s, lastEnd, i - 1))
           IN RenderFrom(ApplyMatch(d1, m), s, m.end)

RECURSIVE RenderAll(_, _)
RenderAll(d, chunks) ==
  IF chunks = <<>> THEN d
  ELSE RenderAll(RenderFrom(d, Head(chunks), 1), Tail(chunks))

Render(txt, fmt, chunks) ==
  RenderAll([text |-> txt, fmt |-> fmt, titles |-> <<>>, runs |-> <<>>], chunks)

\* the rendering without the last statement, which moves the boundary
AppendAnsiText_KeepBoundary(chunks) ==
  LET d == Render(text, current_format, chunks) IN
    /\ text' = d.text
    /\ current_format' = d.fmt
    /\ cursor_pos' = Len(d.text)
    /\ cursor_anchor' = Len(d.text)
    /\ input_start_pos' = input_start_pos

\* one or more consecutive calls of append_ansi_text, each in full:
\* caret to End, render, caret to End, boundary to End
AppendAnsiText(chunks) ==
  LET d == Render(text, current_format, chunks) IN
    /\ text' = d.text
    /\ current_format' = d.fmt
    /\ cursor_pos' = Len(d.text)
    /\ cursor_anchor' = Len(d.text)
    /\ input_start_pos' = Len(d.text)

(* ---------------------------- messages --------------------------------- *)
Red(body) == <<ESC, "[", "3", "1", "m">> \o body \o <<ESC, "[", "0", "m", NL>>

MsgTooManyRestarts == Red(<<"TooManyRestarts">>)
MsgNoShell == Red(<<"NoShellFound">>)
MsgStarting == <<"Starting", NL>>
MsgFailedStart == Red(<<"FailedToStart">>)
MsgProcessError == <<"ProcessError", NL>>

\* the body "Shell process {status} with code {exitCode}." as one glyph
ExitGlyph(status, code) ==
  CASE status = "finished" /\ code = 0 -> "finished with code 0"
    [] status = "finished" /\ code = 1 -> "finished with code 1"
    [] status = "crashed" /\ code = 9 -> "crashed with code 9"

\* the exit line without the exit code
MsgFinished_NoCode(status, code) ==
  <<NL, ESC, "[", "3", "3", "m", status, ESC, "[", "0", "m", NL>>

MsgFinished(status, code) ==
  <<NL, ESC, "[", "3", "3", "m", ExitGlyph(status, code), ESC, "[", "0", "m", NL>>

MsgShellNotRunning == Red(<<"ShellNotRunning">>)
MsgCannotSend == Red(<<"CannotSendCommand">>)

(* ---------------------------- event record ----------------------------- *)
\* what the last handler did: its kind, whether it was entered with the
\* session Running and with a selection, restart_count at its entry, its
\* arguments, its process.write calls, the diagnostics it rendered, the
\* process.start it issued, and the insertPlainText calls and the
\* titleChanged emissions of the child's output it rendered
Ev(kind, writes, diags, spawn) ==
  [kind |-> kind, running |-> process_running, count0 |-> restart_count,
   sel |-> (cursor_pos # cursor_anchor), arg |-> <<>>, writes |-> writes,
   diags |-> diags, spawn |-> spawn, runs |-> <<>>, titles |-> <<>>]

EvArg(kind, arg, writes, diags, spawn) ==
  [Ev(kind, writes, diags, spawn) EXCEPT !.arg = arg]

InitWith(font, out) ==
  /\ text = <<>>
  /\ cursor_pos = 0
  /\ cursor_anchor = 0
  /\ input_start_pos = 0
  /\ current_font = font
  /\ current_format = ResetCharFormat(<<>>)
  /\ closed = "open"
  /\ stream = out
  /\ process_running = FALSE
  /\ restart_count = 0
  /\ last_started = 0
  /\ proc_state = "NotRunning"
  /\ now = StartTime
  /\ prev_attempt = -1
  /\ prev_refused = FALSE
  /\ streak = 0
  /\ spaced = TRUE
  /\ scheduled = TRUE
  /\ last = [kind |-> "init", running |-> FALSE, count0 |-> 0, sel |-> FALSE,
             arg |-> <<>>, writes |-> <<>>, diags |-> <<>>, spawn |-> <<>>,
             runs |-> <<>>, titles |-> <<>>]

\* a session constructed without initial_font, whose child's output is drawn
\* as it is read
Init == InitWith(DEFAULT_FONT, <<>>)

docVars == <<text, cursor_pos, cursor_anchor, input_start_pos, current_format>>
supVars == <<process_running, restart_count, last_started, proc_state>>
ghostVars == <<prev_attempt, prev_refused, streak, spaced>>
envVars == <<closed, current_font, stream>>

(* ---------------------------- process supervisor ----------------------- *)
RestartWindow == 2
MaxRestarts == 3
StartWaitSecs == 3
StreakCap == 6

NoPath == "none"
BashPaths == {NoPath, "/usr/bin/bash"}
PowershellPaths == {NoPath, "C:/WINDOWS/powershell.exe"}
CmdPaths == {NoPath, "C:/WINDOWS/cmd.exe"}
StartOutcomes == {"started", "timeout", "failed"}

\* 0 < (now - self.last_started) < 2
IsRapidRestart(t, started) == 0 < t - started /\ t - started < RestartWindow

\* the count kept when the window test fails
CountAfterAttempt_NoReset(count, t, started) ==
  IF IsRapidRestart(t, started) THEN count + 1 ELSE count

\* the value of restart_count after the throttle bookkeeping of one attempt
CountAfterAttempt(count, t, started) ==
  IF IsRapidRestart(t, started) THEN count + 1 ELSE 0

\* no attempt held back
Throttled_Never(count, t, started) == FALSE

\* the limit compared with >= instead of >
Throttled_AtThree(count, t, started) ==
  IsRapidRestart(t, started) /\ count + 1 >= MaxRestarts

\* the attempt returns at "Too many restarts" before anything else happens
Throttled(count, t, started) ==
  IsRapidRestart(t, started) /\ count + 1 > MaxRestarts

\* last_started after an attempt: the refusal returns before it is assigned
StampAfterAttempt(count, t, started) ==
  IF Throttled(count, t, started) THEN started ELSE t

\* shutil.which("bash") or shutil.which("powershell.exe") or shutil.which("cmd.exe")
FindShell(bash, ps, cmd) ==
  IF bash # NoPath THEN bash ELSE IF ps # NoPath THEN ps ELSE cmd

\* 'bash' in shell_executable.lower()
MentionsBash(path) ==
  path \in {"/usr/bin/bash", "C:/Program Files/Git/bin/bash.exe",
            "C:/Users/bashir/powershell.exe", "C:/tools/bash/cmd.exe"}

ShellArgs(path) == IF MentionsBash(path) THEN <<"--login", "-i">> ELSE <<>>

\* the result of waitForStarted taken as success when it timed out
StartAndWait_IgnoreTimeout(state, outcome) ==
  IF state = "Running" \/ outcome \in {"started", "timeout"}
    THEN [state |-> IF outcome = "timeout" /\ state # "Running" THEN "Starting" ELSE "Running",
          ok |-> TRUE, err |-> FALSE, wait |-> 0]
  ELSE [state |-> "NotRunning", ok |-> FALSE, err |-> TRUE, wait |-> 0]

\* QProcess.start followed by waitForStarted(3000), by the state of the handle
\* and what the child does: the resulting state, the value returned, whether
\* errorOccurred is delivered and the time spent waiting
StartAndWait(state, outcome) ==
  IF state = "Running"
    THEN [state |-> "Running", ok |-> TRUE, err |-> FALSE, wait |-> 0]
  ELSE IF outcome = "started"
    THEN [state |-> "Running", ok |-> TRUE, err |-> FALSE, wait |-> 0]
  ELSE IF outcome = "timeout"
    THEN [state |-> "Starting", ok |-> FALSE, err |-> FALSE, wait |-> StartWaitSecs]
  ELSE [state |-> "NotRunning", ok |-> FALSE, err |-> TRUE, wait |-> 0]

Min(a, b) == IF a < b THEN a ELSE b

\* bookkeeping of the start attempts as they were issued, refused or not:
\* streak is the length of the current run of attempts each less than 2
\* time-units after the previous one, spaced tells that each attempt of the
\* run came at a later clock reading than the one before
NoteAttempt(refused) ==
  /\ streak' = IF prev_attempt # -1 /\ now - prev_attempt < RestartWindow
                 THEN Min(streak + 1, StreakCap) ELSE 1
  /\ spaced' = IF prev_attempt # -1 /\ now - prev_attempt < RestartWindow
                 THEN spaced /\ now > prev_attempt ELSE TRUE
  /\ prev_attempt' = now
  /\ prev_refused' = refused

\* start_process; note is kept in the event as the environment it ran in
\* start_process without the guard on process_running
StartProcessNoted_NoGuard(bash, ps, cmd, outcome, note) ==
    LET exe == FindShell(bash, ps, cmd)
        r == StartAndWait(proc_state, outcome)
    IN
    /\ restart_count' = CountAfterAttempt(restart_count, now, last_started)
    /\ last_started' = StampAfterAttempt(restart_count, now, last_started)
    /\ IF Throttled(restart_count, now, last_started) THEN
         /\ AppendAnsiText(<<MsgTooManyRestarts>>)
         /\ last' = EvArg("start", note, <<>>, <<"TooManyRestarts">>, <<>>)
         /\ NoteAttempt(TRUE)
         /\ UNCHANGED <<process_running, proc_state, now>>
       ELSE IF exe = NoPath THEN
         /\ AppendAnsiText(<<MsgNoShell>>)
         /\ last' = EvArg("start", note, <<>>, <<"NoShellFound">>, <<>>)
         /\ NoteAttempt(FALSE)
         /\ UNCHANGED <<process_running, proc_state, now>>
       ELSE
         /\ AppendAnsiText(<<MsgStarting>>
                \o (IF r.err THEN <<MsgProcessError>> ELSE <<>>)
                \o (IF r.ok THEN <<>> ELSE <<MsgFailedStart>>))
         /\ last' = EvArg("start", note, <<>>,
                (IF r.err THEN <<"ProcessError">> ELSE <<>>)
                \o (IF r.ok THEN <<>> ELSE <<"FailedToStart">>),
                IF proc_state = "NotRunning"
                  THEN << [exe |-> exe, args |-> ShellArgs(exe)] >> ELSE <<>>)
         /\ NoteAttempt(FALSE)
         /\ proc_state' = r.state
         /\ process_running' = r.ok
         /\ now' = now + r.wait

StartProcessNoted(bash, ps, cmd, outcome, note) ==
  IF process_running THEN
    /\ last' = EvArg("start_noop", note, <<>>, <<>>, <<>>)
    /\ UNCHANGED <<docVars, supVars, now, ghostVars>>
  ELSE
    LET exe == FindShell(bash, ps, cmd)
        r == StartAndWait(proc_state, outcome)
    IN
    /\ restart_count' = CountAfterAttempt(restart_count, now, last_started)
    /\ last_started' = StampAfterAttempt(restart_count, now, last_started)
    /\ IF Throttled(restart_count, now, last_started) THEN
         /\ AppendAnsiText(<<MsgTooManyRestarts>>)
         /\ last' = EvArg("start", note, <<>>, <<"TooManyRestarts">>, <<>>)
         /\ NoteAttempt(TRUE)
         /\ UNCHANGED <<process_running, proc_state, now>>
       ELSE IF exe = NoPath THEN
         /\ AppendAnsiText(<<MsgNoShell>>)
         /\ last' = EvArg("start", note, <<>>, <<"NoShellFound">>, <<>>)
         /\ NoteAttempt(FALSE)
         /\ UNCHANGED <<process_running, proc_state, now>>
       ELSE
         /\ AppendAnsiText(<<MsgStarting>>
                \o (IF r.err THEN <<MsgProcessError>> ELSE <<>>)
                \o (IF r.ok THEN <<>> ELSE <<MsgFailedStart>>))
         /\ last' = EvArg("start", note, <<>>,
                (IF r.err THEN <<"ProcessError">> ELSE <<>>)
                \o (IF r.ok THEN <<>> ELSE <<"FailedToStart">>),
                IF proc_state = "NotRunning"
                  THEN << [exe |-> exe, args |-> ShellArgs(exe)] >> ELSE <<>>)
         /\ NoteAttempt(FALSE)
         /\ proc_state' = r.state
         /\ process_running' = r.ok
         /\ now' = now + r.wait

StartProcess(bash, ps, cmd, outcome) ==
  StartProcessNoted(bash, ps, cmd, outcome, <<>>)

\* a child whose start was declared failed by the timeout comes up afterwards
ChildComesUp ==
  /\ proc_state = "Starting"
  /\ proc_state' = "Running"
  /\ last' = Ev("child_up", <<>>, <<>>, <<>>)
  /\ UNCHANGED <<docVars, process_running, restart_count, last_started, now, ghostVars, scheduled, envVars>>

Tick ==
  /\ now' = now + 1
  /\ last' = Ev("tick", <<>>, <<>>, <<>>)
  /\ UNCHANGED <<docVars, supVars, ghostVars, scheduled, envVars>>

ExitStatuses == {"finished", "crashed"}
\* the exit code of a shell that exits, the signal number of one killed
ExitCodes(status) == IF status = "crashed" THEN {9} ELSE {0, 1}

\* the child exits: errorOccurred(Crashed) precedes finished on a crash
ProcessFinished(status, code) ==
  /\ proc_state = "Running"
  /\ proc_state' = "NotRunning"
  /\ AppendAnsiText((IF status = "crashed" THEN <<MsgProcessError>> ELSE <<>>)
                    \o <<MsgFinished(status, code)>>)
  /\ process_running' = FALSE
  /\ last' = EvArg("finished", <<status, code>>, <<>>,
                   (IF status = "crashed" THEN <<"ProcessError">> ELSE <<>>)
                   \o <<status>>, <<>>)
  /\ UNCHANGED <<restart_count, last_started, now, ghostVars, scheduled, envVars>>

\* errorOccurred for a read or write error on a live child
HandleProcessError ==
  /\ proc_state = "Running"
  /\ AppendAnsiText(<<MsgProcessError>>)
  /\ last' = Ev("error", <<>>, <<"ProcessError">>, <<>>)
  /\ UNCHANGED <<supVars, now, ghostVars, scheduled, envVars>>

\* read_stdout; note is kept in the event after the chunk
ReadStdoutNoted(chunk, note) ==
  /\ proc_state = "Running"
  /\ AppendAnsiText(<<chunk>>)
  /\ last' = [EvArg("stdout", <<chunk>> \o note, <<>>, <<>>, <<>>)
               EXCEPT !.runs = Render(text, current_format, <<chunk>>).runs,
                      !.titles = Render(text, current_format, <<chunk>>).titles]
  /\ UNCHANGED <<supVars, now, ghostVars, scheduled, closed, current_font>>

ReadStdout(chunk) == ReadStdoutNoted(chunk, <<>>)

\* apply_font, as MainWindow._apply_font_to_all_terminals calls it
ApplyFont(font) ==
  /\ current_font' = font
  /\ current_format' = ResetCharFormatWith(current_format, font)
  /\ last' = EvArg("apply_font", <<font>>, <<>>, <<>>, <<>>)
  /\ UNCHANGED <<text, cursor_pos, cursor_anchor, input_start_pos, supVars,
                 now, ghostVars, scheduled, closed, stream>>

(* ---------------------------- input line discipline -------------------- *)
HasSelection == cursor_pos # cursor_anchor
SelStart == Min(cursor_pos, cursor_anchor)
SelEnd == IF cursor_pos > cursor_anchor THEN cursor_pos ELSE cursor_anchor

\* position of the caret after "if not cursor.hasSelection(): moveCursor(End)"
CaretForKey == IF HasSelection THEN cursor_pos ELSE Len(text)

\* QTextEdit: the selected range replaced by ins, caret after the insertion
ReplaceSelection(t, from, to, ins) ==
  SubSeq(t, 1, from) \o ins \o SubSeq(t, to + 1, Len(t))

\* doc.toPlainText()[self.input_start_pos:]
TextFrom(t, boundary) == SubSeq(t, boundary + 1, Len(t))

\* the line sent as it stands in the document
RStripNewlines_None(t) == t

\* str.rstrip('\n')
RECURSIVE RStripNewlines(_)
RStripNewlines(t) ==
  IF Len(t) > 0 /\ t[Len(t)] = NL THEN RStripNewlines(SubSeq(t, 1, Len(t) - 1))
  ELSE t

\* the bytes handed to process.write on Enter
SubmitLine(t, boundary) == RStripNewlines(TextFrom(t, boundary)) \o <<NL>>

\* the comparison of Delete used for Backspace
BackspaceAllowed_AtBoundary(sel, caret, boundary) == sel \/ caret >= boundary
BackspaceAllowed(sel, caret, boundary) == sel \/ caret > boundary
DeleteAllowed(sel, caret, boundary) == sel \/ caret >= boundary

\* "not cursor.hasSelection() and current_cursor_pos < self.input_start_pos"
EditSuppressed(sel, caret, boundary) == ~sel /\ caret < boundary

\* mousePressEvent and drag: a selection anywhere in the text.  A click that
\* only moves the caret is left out: every handler that reads the caret of an
\* empty selection first moves it to End.
MouseSelect(a, p) ==
  /\ a \in 0..Len(text)
  /\ p \in (a + 1)..Len(text)
  /\ cursor_anchor' = a
  /\ cursor_pos' = p
  /\ last' = Ev("mouse", <<>>, <<>>, <<>>)
  /\ UNCHANGED <<text, input_start_pos, current_format, supVars, now, ghostVars, scheduled, envVars>>

\* the interrupt byte written whether or not text is selected
InterruptWrites_IgnoreSelection(running, sel) ==
  IF running THEN << <<"\\x03">> >> ELSE <<>>

\* the process.write calls of Ctrl+C
InterruptWrites(running, sel) ==
  IF running /\ ~sel THEN << <<"\\x03">> >> ELSE <<>>

\* whether Ctrl+C is handed to QTextEdit, which copies the selection
InterruptForwarded(running, sel) == ~running \/ sel

KeyCtrlC ==
  /\ last' = EvArg("ctrl_c", <<InterruptForwarded(process_running, HasSelection)>>,
                   InterruptWrites(process_running, HasSelection), <<>>, <<>>)
  /\ UNCHANGED <<docVars, supVars, now, ghostVars, scheduled, envVars>>

KeyBackspace ==
  /\ last' = Ev("backspace", <<>>, <<>>, <<>>)
  /\ IF ~BackspaceAllowed(HasSelection, CaretForKey, input_start_pos) THEN
       /\ cursor_pos' = CaretForKey
       /\ cursor_anchor' = CaretForKey
       /\ UNCHANGED text
     ELSE IF HasSelection THEN
       /\ text' = ReplaceSelection(text, SelStart, SelEnd, <<>>)
       /\ cursor_pos' = SelStart
       /\ cursor_anchor' = SelStart
     ELSE
       /\ text' = SubSeq(text, 1, Len(text) - 1)
       /\ cursor_pos' = Len(text) - 1
       /\ cursor_anchor' = Len(text) - 1
  /\ UNCHANGED <<input_start_pos, current_format, supVars, now, ghostVars, scheduled, envVars>>

KeyDelete ==
  /\ last' = Ev("delete", <<>>, <<>>, <<>>)
  /\ IF DeleteAllowed(HasSelection, CaretForKey, input_start_pos) /\ HasSelection THEN
       /\ text' = ReplaceSelection(text, SelStart, SelEnd, <<>>)
       /\ cursor_pos' = SelStart
       /\ cursor_anchor' = SelStart
     ELSE
       \* the caret is at End: there is no character after it to delete
       /\ cursor_pos' = CaretForKey
       /\ cursor_anchor' = CaretForKey
       /\ UNCHANGED text
  /\ UNCHANGED <<input_start_pos, current_format, supVars, now, ghostVars, scheduled, envVars>>

\* a printable key (ins is one character) or Ctrl+V (ins is the clipboard):
\* both reach the final super().keyPressEvent(ev)
KeyInsert(kind, ins) ==
  /\ last' = Ev(kind, <<>>, <<>>, <<>>)
  /\ IF EditSuppressed(HasSelection, CaretForKey, input_start_pos) THEN
       /\ cursor_pos' = CaretForKey
       /\ cursor_anchor' = CaretForKey
       /\ UNCHANGED text
     ELSE
       LET from == IF HasSelection THEN SelStart ELSE Len(text)
           to == IF HasSelection THEN SelEnd ELSE Len(text)
       IN /\ text' = ReplaceSelection(text, from, to, ins)
          /\ cursor_pos' = from + Len(ins)
          /\ cursor_anchor' = from + Len(ins)
  /\ UNCHANGED <<input_start_pos, current_format, supVars, now, ghostVars, scheduled, envVars>>

KeyChar(c) == KeyInsert("char", <<c>>)
KeyPaste(clip) == KeyInsert("paste", clip)

KeyEnter ==
  IF EditSuppressed(HasSelection, CaretForKey, input_start_pos) THEN
    /\ last' = Ev("enter", <<>>, <<>>, <<>>)
    /\ cursor_pos' = CaretForKey
    /\ cursor_anchor' = CaretForKey
    /\ UNCHANGED <<text, input_start_pos, current_format, supVars, now, ghostVars, scheduled, envVars>>
  ELSE IF process_running THEN
    /\ last' = Ev("enter", <<SubmitLine(text, input_start_pos)>>, <<>>, <<>>)
    /\ text' = text \o <<NL>>
    /\ cursor_pos' = Len(text) + 1
    /\ cursor_anchor' = Len(text) + 1
    /\ input_start_pos' = Len(text) + 1
    /\ UNCHANGED <<current_format, supVars, now, ghostVars, scheduled, envVars>>
  ELSE
    LET d == Render(text, current_format, <<MsgShellNotRunning>>) IN
    /\ last' = Ev("enter", <<>>, <<"ShellNotRunning">>, <<>>)
    /\ text' = d.text \o <<NL>>
    /\ current_format' = d.fmt
    /\ cursor_pos' = Len(d.text) + 1
    /\ cursor_anchor' = Len(d.text) + 1
    /\ input_start_pos' = Len(d.text) + 1
    /\ UNCHANGED <<supVars, now, ghostVars, scheduled, envVars>>

\* the command written with a newline whatever append_enter is
CommandBytes_AlwaysEnter(cmd, append_enter) == cmd \o <<NL>>

\* (command + ('\n' if append_enter else '')).encode()
CommandBytes(cmd, append_enter) ==
  cmd \o (IF append_enter THEN <<NL>> ELSE <<>>)

SendCommand(cmd, append_enter) ==
  IF process_running THEN
    /\ last' = EvArg("send_command", <<cmd, append_enter>>,
                     <<CommandBytes(cmd, append_enter)>>, <<>>, <<>>)
    /\ cursor_pos' = Len(text)
    /\ cursor_anchor' = Len(text)
    /\ UNCHANGED <<text, input_start_pos, current_format, supVars, now, ghostVars, scheduled, envVars>>
  ELSE
    /\ last' = EvArg("send_command", <<cmd, append_enter>>, <<>>,
                     <<"CannotSendCommand">>, <<>>)
    /\ AppendAnsiText(<<MsgCannotSend>>)
    /\ UNCHANGED <<supVars, now, ghostVars, scheduled, envVars>>

(* ---------------------------- closing ---------------------------------- *)
\* TerminalWidget.closeEvent reached by way of path: process.kill() and
\* waitForFinished(1000) when the session is Running and the handle reports
\* Running; the errorOccurred(Crashed) and finished notifications of the
\* killed child are handled inside the wait.  arg is the path and whether
\* kill was called.
CloseEvent(path) ==
  /\ IF process_running /\ proc_state = "Running" THEN
       /\ proc_state' = "NotRunning"
       /\ AppendAnsiText(<<MsgProcessError, MsgFinished("crashed", 9)>>)
       /\ process_running' = FALSE
       /\ last' = EvArg("close", <<path, TRUE>>, <<>>,
                        <<"ProcessError", "crashed">>, <<>>)
     ELSE
       /\ last' = EvArg("close", <<path, FALSE>>, <<>>, <<>>, <<>>)
       /\ UNCHANGED <<docVars, process_running, proc_state>>
  /\ UNCHANGED <<restart_count, last_started, now, ghostVars, scheduled,
                 current_font, stream>>

\* MainWindow._close_terminal_widget: a widget no longer in self.terminals is
\* left alone, otherwise it is closed and removed from the list
CloseTerminalWidget ==
  /\ closed = "open"
  /\ closed' = "closed"
  /\ CloseEvent("tab")

\* MainWindow.closeEvent: every widget still in self.terminals is closed,
\* then the window closes and the event loop ends
MainWindowCloseEvent ==
  /\ closed # "quit"
  /\ closed' = "quit"
  /\ IF closed = "open" THEN CloseEvent("window")
     ELSE /\ last' = Ev("window_close", <<>>, <<>>, <<>>)
          /\ UNCHANGED <<docVars, supVars, now, ghostVars, scheduled,
                         current_font, stream>>

(* ---------------------------- specifications --------------------------- *)
\* Spec is the session as the window runs it (one scheduled start, the user,
\* the preset buttons, the child); SpecSup is the supervisor under a host that
\* requests restarts, with the clock; SpecExample is the prompt example.
Chars == {"a"}
Clips == {<<"a", NL>>}
Chunks == {<<"$">>, <<ESC, "[", "2", "J">>}
Commands == {<<"l", "s">>}

Bounded(maxText, maxTime) == Len(text') <= maxText /\ now' <= maxTime

\* the session as the window runs it: the start scheduled by the constructor
\* fires once, then the user, the host's preset buttons and the child act
ScheduledStart ==
  /\ scheduled
  /\ scheduled' = FALSE
  /\ \E bash \in BashPaths, ps \in PowershellPaths, cmd \in CmdPaths, o \in StartOutcomes :
       StartProcess(bash, ps, cmd, o)
  /\ Bounded(MaxText, MaxTime)
  /\ UNCHANGED envVars
Finished ==
  \E st \in ExitStatuses : \E code \in ExitCodes(st) :
    ProcessFinished(st, code) /\ Bounded(MaxText, MaxTime)
Output ==
  \E c \in Chunks : ReadStdout(c) /\ Bounded(MaxText, MaxTime) /\ UNCHANGED stream
\* selections dragged from the top of the display: over history only, or over
\* history and the line being typed
Mouse == \E p \in 1..MaxText : MouseSelect(0, p)
CtrlC == KeyCtrlC
Backspace == KeyBackspace
Delete == KeyDelete
Type == \E c \in Chars : KeyChar(c) /\ Bounded(MaxText, MaxTime)
Paste == \E clip \in Clips : KeyPaste(clip) /\ Bounded(MaxText, MaxTime)
Enter == KeyEnter /\ Bounded(MaxText, MaxTime)
Send == \E c \in Commands, nl \in BOOLEAN : SendCommand(c, nl) /\ Bounded(MaxText, MaxTime)

Next ==
  \/ ScheduledStart \/ Finished \/ Output
  \/ Mouse \/ CtrlC \/ Backspace \/ Delete \/ Type \/ Paste \/ Enter \/ Send

Spec == Init /\ [][Next]_vars

\* the supervisor driven by a host that asks for restarts: start requests at
\* any time, the clock, and the child's own transitions
Restart ==
  /\ scheduled' = FALSE
  /\ \E bash \in BashPaths, ps \in PowershellPaths, cmd \in CmdPaths, o \in StartOutcomes :
       StartProcess(bash, ps, cmd, o)
  /\ Bounded(MaxSupText, MaxSupTime)
  /\ UNCHANGED envVars
ClockTick == Tick /\ Bounded(MaxSupText, MaxSupTime)
ChildUp == ChildComesUp
ChildExit ==
  \E st \in ExitStatuses : \E code \in ExitCodes(st) :
    ProcessFinished(st, code) /\ Bounded(MaxSupText, MaxSupTime)
ChildError == HandleProcessError /\ Bounded(MaxSupText, MaxSupTime)

NextSup == Restart \/ ClockTick \/ ChildUp \/ ChildExit \/ ChildError

SpecSup == Init /\ [][NextSup]_vars

\* the life of one session in the window: the scheduled start, the child's
\* transitions and output, Enter and the preset buttons, and the two ways of
\* closing it.  Nothing is handled once the window has closed; a closed tab
\* takes no keys.
LifeStart ==
  /\ scheduled
  /\ closed # "quit"
  /\ scheduled' = FALSE
  /\ \E o \in StartOutcomes : StartProcess("/usr/bin/bash", NoPath, NoPath, o)
  /\ Bounded(MaxLifeText, MaxTime)
  /\ UNCHANGED envVars
LifeChildUp == closed # "quit" /\ ChildComesUp
LifeExit ==
  /\ closed # "quit"
  /\ \E st \in ExitStatuses : \E code \in ExitCodes(st) :
       ProcessFinished(st, code) /\ Bounded(MaxLifeText, MaxTime)
LifeError == closed # "quit" /\ HandleProcessError /\ Bounded(MaxLifeText, MaxTime)
LifeOutput ==
  /\ closed # "quit"
  /\ ReadStdout(<<"$">>)
  /\ Bounded(MaxLifeText, MaxTime)
  /\ UNCHANGED stream
LifeType == closed = "open" /\ KeyChar("a") /\ Bounded(MaxLifeText, MaxTime)
LifeEnter == closed = "open" /\ KeyEnter /\ Bounded(MaxLifeText, MaxTime)
LifeSend ==
  /\ closed = "open"
  /\ \E c \in Commands, nl \in BOOLEAN : SendCommand(c, nl)
  /\ Bounded(MaxLifeText, MaxTime)
TabClose == CloseTerminalWidget /\ Bounded(MaxLifeText, MaxTime)
WindowClose == MainWindowCloseEvent /\ Bounded(MaxLifeText, MaxTime)

NextLife ==
  \/ LifeStart \/ LifeChildUp \/ LifeExit \/ LifeError \/ LifeOutput
  \/ LifeType \/ LifeEnter \/ LifeSend \/ TabClose \/ WindowClose

SpecLife == Init /\ [][NextLife]_vars

\* the session of the worked example: the shell clears the screen and prints
\* its prompt, with or without the first word of the command already echoed,
\* and the user pastes the rest of the line
PromptText == <<"p", "r", "o", "m", "p", "t", ">", " ">>
ClearScreen == <<ESC, "[", "2", "J">>
ExampleChunks == {ClearScreen \o PromptText, ClearScreen \o PromptText \o <<"l", "s">>}
ExampleClips == {<<"l", "s", " ", "-", "l", "a", NL>>, <<" ", "-", "l", "a", NL>>}

ExStart ==
  /\ scheduled
  /\ scheduled' = FALSE
  /\ \E o \in StartOutcomes : StartProcess("/usr/bin/bash", NoPath, NoPath, o)
  /\ Bounded(ExampleLen, MaxTime)
  /\ UNCHANGED envVars
ExOutput ==
  \E c \in ExampleChunks :
    ReadStdout(c) /\ Bounded(ExampleLen, MaxTime) /\ UNCHANGED stream
ExPaste == \E clip \in ExampleClips : KeyPaste(clip) /\ Bounded(ExampleLen, MaxTime)
ExEnter == KeyEnter /\ Bounded(ExampleLen, MaxTime)

NextExample == ExStart \/ ExOutput \/ ExPaste \/ ExEnter

SpecExample == Init /\ [][NextExample]_vars

(* ---------------------------- input boundary --------------------------- *)
KeyKinds == {"char", "paste", "backspace", "delete", "enter"}

\* the rendered text before the boundary
History(t, boundary) == SubSeq(t, 1, Min(boundary, Len(t)))

IsPrefix(p, t) == Len(p) <= Len(t) /\ SubSeq(t, 1, Len(p)) = p

\* t ends with the line <<glyph, NL>> followed by extra
EndsWithLine(t, glyph, extra) ==
  LET tailLen == 2 + Len(extra) IN
    /\ Len(t) >= tailLen
    /\ SubSeq(t, Len(t) - tailLen + 1, Len(t)) = <<glyph, NL>> \o extra

\* C1: no key event (typing, paste, Backspace, Delete, Enter), with or without
\* a selection, changes or removes a character before input_boundary.
C1_HistoryImmutable ==
  [][last'.kind \in KeyKinds => IsPrefix(History(text, input_start_pos), text')]_vars

\* C2: a Backspace or Delete pressed with no selection leaves input_boundary
\* and the text before it unchanged; the text from the boundary on only loses
\* characters at its end, and loses none when the caret is at the boundary.
C2_DeletionKeepsHistory ==
  [][(last'.kind \in {"backspace", "delete"} /\ ~HasSelection) =>
       /\ input_start_pos' = input_start_pos
       /\ IsPrefix(History(text, input_start_pos), text')
       /\ IsPrefix(text', text)
       /\ (Len(text) <= input_start_pos => text' = text)]_vars

\* a Backspace with no selection has removed a typed character and typed text
\* is left after a non-empty history
C2_Witness ==
  /\ last.kind = "backspace"
  /\ ~last.sel
  /\ input_start_pos > 0
  /\ Len(text) > input_start_pos

\* C3: Enter with the process Running makes exactly one write, the text from
\* input_boundary to the end without its trailing newlines plus one newline,
\* and leaves input_boundary at the new end of the text.
C3_SubmitWritesLine ==
  [][(last'.kind = "enter" /\ process_running) =>
       /\ last'.writes = <<SubmitLine(text, input_start_pos)>>
       /\ input_start_pos' = Len(text')]_vars

\* C5: while the session is not Running, Enter and send_command write nothing
\* and each appends a diagnostic line to the display.
C5_RejectedWriteReported ==
  [][(last'.kind \in {"enter", "send_command"} /\ ~process_running) =>
       /\ last'.writes = <<>>
       /\ Len(text') > Len(text)
       /\ \/ last'.kind = "enter" /\ EndsWithLine(text', "ShellNotRunning", <<NL>>)
          \/ last'.kind = "send_command" /\ EndsWithLine(text', "CannotSendCommand", <<>>)]_vars

(* ---------------------------- restart throttle ------------------------- *)
\* a step of start_process entered with the session not Running
StartAttempt == last'.kind = "start" /\ ~process_running

Refused(ev) == ev.kind = "start" /\ ev.diags = <<"TooManyRestarts">>

\* the previous start attempt was less than 2 time-units ago
RapidAfterPrevious == prev_attempt # -1 /\ now - prev_attempt < RestartWindow

\* C6 as stated, for attempts at successive clock readings: the 4th of 4
\* start attempts, each less than 2 time-units after the previous one, is
\* refused.
C6_FourthRefused ==
  (last.kind = "start" /\ streak = 4 /\ spaced) => Refused(last)

\* C6 as amended: an attempt is refused only as the 5th or a later one of a
\* run of attempts each less than 2 time-units after the previous one, a
\* refusal spawns nothing, and the 5th attempt of a run at successive clock
\* readings is refused.
C6_RefusedFromFifth ==
  /\ Refused(last) => (streak >= 5 /\ last.spawn = <<>>)
  /\ (last.kind = "start" /\ streak = 5 /\ spaced) => Refused(last)

\* the 5th attempt of a run of rapid attempts has just been refused
C6_Witness == Refused(last) /\ streak = 5 /\ spaced /\ restart_count = 4

\* C7: every start attempt made less than 2 time-units after the previous
\* one, zero elapsed time included, increments restart_count by exactly one.
C7_RapidAttemptCounts ==
  [][(StartAttempt /\ RapidAfterPrevious) => restart_count' = restart_count + 1]_vars

\* C8: after a refused attempt, an attempt less than 2 time-units after the
\* immediately preceding attempt is refused as well.
C8_RefusalPersists ==
  [][(StartAttempt /\ prev_refused /\ RapidAfterPrevious) => Refused(last')]_vars

\* C9: a start attempt 2 or more time-units after the recorded last_started
\* sets restart_count to zero and is not refused, whatever the count was.
C9_GapResets ==
  [][(StartAttempt /\ now - last_started >= RestartWindow) =>
       (restart_count' = 0 /\ ~Refused(last'))]_vars

\* an attempt entered with a positive count, 2 or more time-units after the
\* previous attempt, has reset the count and was let through
C9_Witness ==
  /\ last.kind = "start"
  /\ last.count0 >= 1
  /\ streak = 1
  /\ restart_count = 0
  /\ ~Refused(last)

FailureGlyphs == {"TooManyRestarts", "NoShellFound", "FailedToStart"}

\* C10: a start attempt that does not end with a started child (refused, no
\* shell, start not confirmed) appends a diagnostic line and leaves the
\* session not Running; a refusal and a missing shell issue no spawn.
C10_FailedStartReported ==
  [][StartAttempt =>
       /\ (proc_state' # "Running" =>
             /\ ~process_running'
             /\ IsPrefix(text, text')
             /\ \E g \in FailureGlyphs :
                  /\ EndsWithLine(text', g, <<>>)
                  /\ last'.diags[Len(last'.diags)] = g)
       /\ ((last'.diags = <<"TooManyRestarts">> \/ last'.diags = <<"NoShellFound">>) =>
             /\ last'.spawn = <<>>
             /\ proc_state' = proc_state
             /\ ~process_running')]_vars

\* a start whose confirmation timed out has been reported: the child is still
\* coming up, the session is not Running and the display ends with the line
C10_Witness ==
  /\ last.kind = "start"
  /\ last.diags = <<"FailedToStart">>
  /\ Len(last.spawn) = 1
  /\ proc_state = "Starting"
  /\ ~process_running
  /\ EndsWithLine(text, "FailedToStart", <<>>)

(* ---------------------------- worked example --------------------------- *)
ExampleText == PromptText \o <<"l", "s", " ", "-", "l", "a", NL>>
LsLine == <<"l", "s", " ", "-", "l", "a", NL>>

SubmitOfExample(boundary) ==
  /\ last'.kind = "enter"
  /\ process_running
  /\ text = ExampleText
  /\ input_start_pos = boundary

\* C4 as stated: Enter with input_boundary 10 and the text "prompt> ls -la\n"
\* writes exactly "ls -la\n".
C4_SendsLsAtTen ==
  [][SubmitOfExample(10) => last'.writes = <<LsLine>>]_vars

\* C4 as amended: with that text "ls -la\n" is written when input_boundary is
\* 8, the length of the prompt; with input_boundary 10 the write is " -la\n".
C4_SendsLsAtEight ==
  [][/\ SubmitOfExample(8) => last'.writes = <<LsLine>>
     /\ SubmitOfExample(10) => last'.writes = << <<" ", "-", "l", "a", NL>> >>]_vars

\* the example has been submitted from the prompt: the display holds the
\* prompt, the pasted line and the newline of Enter, and "ls -la\n" was written
C4_Witness ==
  /\ last.kind = "enter"
  /\ last.running
  /\ last.writes = <<LsLine>>
  /\ text = ExampleText \o <<NL>>
  /\ input_start_pos = Len(text)

(* ---------------------------- escape sequence interpreter -------------- *)
\* SpecAnsi: a session constructed with any of the host's fonts whose child
\* prints one chunk of the families below; the start is the scheduled one.
RECURSIVE JoinSemi(_)
JoinSemi(l) ==
  IF l = <<>> THEN <<>>
  ELSE IF Len(l) = 1 THEN l[1]
  ELSE l[1] \o <<";">> \o JoinSemi(Tail(l))

\* the SGR sequence ESC [ p1;p2;... m
SgrSeq(l) == <<ESC, "[">> \o JoinSemi(l) \o <<"m">>

ListsUpTo(T, n) == UNION {[1..k -> T] : k \in 0..n}

PlainTokens == {<<"0">>, <<"1">>, <<"3", "1">>}
StyleTokens == {<<"1">>, <<"3">>, <<"4">>, <<"3", "1">>, <<"4", "2">>}
SubParams == {<<"0">>, <<"1">>, <<"5">>}
Extended == {<<"3", "8">>, <<"4", "8">>}
PlainLists == ListsUpTo(PlainTokens, MaxPlain)

\* a token that is not a number: alone, directly after 38 or 48, or in the
\* place of the palette index
BadItems ==
  { << <<"?">> >>, << <<"1", "?">> >> }
  \cup { <<c, <<"?">> >> : c \in Extended }
  \cup { << <<"3", "8">>, <<"5">>, <<"?">> >> }

MalformedLists ==
  { pre \o bad \o post : pre \in PlainLists, bad \in BadItems, post \in PlainLists }

ExtendedGroups ==
  { <<c, <<"5">>, n>> : c \in Extended, n \in SubParams }
  \cup { <<c, <<"2">>, r, g, b>> :
           c \in Extended, r \in SubParams, g \in SubParams, b \in SubParams }

GroupPrefixes == {<<>>, << <<"1">> >>}

ExtendedLists ==
  { pre \o grp \o post :
      pre \in GroupPrefixes, grp \in ExtendedGroups, post \in PlainLists }

MalformedChunks == { SgrSeq(l) : l \in MalformedLists }
ExtendedChunks == { SgrSeq(l) : l \in ExtendedLists }

\* any styling followed by a reset, written ESC[0m or ESC[m
ResetChunks ==
  { SgrSeq(l) \o SgrSeq(r) :
      l \in ListsUpTo(StyleTokens, MaxSgrLen), r \in {<<>>, << <<"0">> >>} }

Hello == <<"H", "E", "L", "L", "O">>

\* text runs with SGR sequences between them
StyledChunks ==
  { r1 \o SgrSeq(l1) \o r2 \o SgrSeq(l2) \o r3 :
      r1 \in {<<>>, <<"a">>}, l1 \in ListsUpTo(PlainTokens, MaxSgrLen),
      r2 \in {<<"b">>, Hello}, l2 \in {<< <<"0">> >>, << <<"4">> >>},
      r3 \in {<<>>, <<"c">>} }

DigitChar(k) ==
  CASE k = 0 -> "0" [] k = 1 -> "1" [] k = 2 -> "2" [] k = 3 -> "3"
    [] k = 4 -> "4" [] k = 5 -> "5" [] k = 6 -> "6" [] k = 7 -> "7"
    [] k = 8 -> "8" [] k = 9 -> "9"

\* the decimal digits of n < 1000
Token(n) ==
  IF n < 10 THEN <<DigitChar(n)>>
  ELSE IF n < 100 THEN <<DigitChar(n \div 10), DigitChar(n % 10)>>
  ELSE <<DigitChar(n \div 100), DigitChar((n \div 10) % 10), DigitChar(n % 10)>>

\* every code but the extended-colour introducers, alone, the empty list,
\* and pairs of codes; read in the default style or after ESC[1;3;4;31;42m
DocCodes == (0..MaxCode) \ {38, 48}
PairCodes == {0, 1, 5, 22, 31, 39}
DocLists ==
  {<<>>} \cup { <<Token(c)>> : c \in DocCodes }
  \cup { <<Token(a), Token(b)>> : a \in PairCodes, b \in PairCodes }
StyledPrefix ==
  SgrSeq(<< <<"1">>, <<"3">>, <<"4">>, <<"3", "1">>, <<"4", "2">> >>)
PrefixSeqs == {<<>>, StyledPrefix}
SgrFoldChunks == { pre \o SgrSeq(l) : pre \in PrefixSeqs, l \in DocLists }

\* OSC sequences: a command number, a payload, a terminator (BEL or ESC \)
OscSeq(n, payload, term) == <<ESC, "]">> \o n \o <<";">> \o payload \o term
OscTerminators == {<<BEL>>, <<ESC, "\\">>}
MyTitle == <<"M", "y", " ", "T", "i", "t", "l", "e">>
OscPayloads == {<<>>, <<"T">>, MyTitle}
TitleNumbers == {<<"0">>, <<"1">>, <<"2">>}
OtherNumbers == {<<"3">>, <<"4">>, <<"5", "2">>}
OscTitleChunks ==
  { OscSeq(n, p, t) : n \in TitleNumbers, p \in OscPayloads, t \in OscTerminators }
OscOtherChunks ==
  { OscSeq(n, p, t) : n \in OtherNumbers, p \in OscPayloads, t \in OscTerminators }

\* CSI cursor and erase sequences between two pieces of text
CsiSeq(p, c) == <<ESC, "[">> \o p \o <<c>>
CsiParams ==
  {<<>>, <<"0">>, <<"1">>, <<"2">>, <<"3">>, <<"2", "2">>, <<"1", ";", "1">>}
CsiFinals == {"H", "J", "K"}
CsiPre == {<<>>, <<"a">>}
CsiPost == {<<>>, <<"b">>}
CsiChunks ==
  { pre \o CsiSeq(p, c) \o post :
      pre \in CsiPre, p \in CsiParams, c \in CsiFinals, post \in CsiPost }

\* chunks put together from pieces: a recognized sequence of each
\* alternative of the regex, an escape introducer that matches none of them,
\* or plain text
RecognizedSeqs ==
  { SgrSeq(<< <<"3", "1">> >>), OscSeq(<<"0">>, <<"T">>, <<BEL>>),
    CsiSeq(<<>>, "K"), <<ESC, "(", "B">>, <<ESC, "M">>, <<ESC, "=">>,
    <<ESC, ">">> }
UnmatchedSeqs ==
  { <<ESC>>, <<ESC, "[">>, <<ESC, "[", "5", "n">>,
    <<ESC, "[", "1", ";", "x", "m">>, <<ESC, "]", "0", ";", "a">>,
    <<ESC, "c">>, <<ESC, "(", "X">> }
PlainPieces == {<<"a">>, <<"b", "c">>}
Pieces == RecognizedSeqs \cup UnmatchedSeqs \cup PlainPieces
FewPieces ==
  { SgrSeq(<< <<"3", "1">> >>), OscSeq(<<"0">>, <<"T">>, <<BEL>>), <<ESC>>,
    <<"a">> }
PieceLists ==
  {<<>>} \cup { <<x>> : x \in Pieces } \cup (Pieces \X Pieces)
  \cup (FewPieces \X FewPieces \X FewPieces)

RECURSIVE Flatten(_)
Flatten(ps) == IF ps = <<>> THEN <<>> ELSE Head(ps) \o Flatten(Tail(ps))

PieceChunks == { Flatten(ps) : ps \in PieceLists } \ {<<>>}

\* a malformed or unrecognized sequence, then text or nothing, then a
\* well-formed sequence
BadSeqs ==
  UnmatchedSeqs
  \cup { <<ESC, "]", "0", ";", "a", ESC>>, OscSeq(<<"4">>, <<"a">>, <<BEL>>) }
MidTexts == {<<>>, <<"a">>}
GoodSeqs ==
  { SgrSeq(<< <<"3", "1">> >>), SgrSeq(<< <<"1">> >>),
    OscSeq(<<"0">>, <<"T">>, <<BEL>>), OscSeq(<<"2">>, <<"T">>, <<ESC, "\\">>),
    CsiSeq(<<"2">>, "J"), CsiSeq(<<>>, "K") }
ResyncChunks ==
  { bad \o mid \o good : bad \in BadSeqs, mid \in MidTexts, good \in GoodSeqs }

\* an extended-colour group cut short: 38 or 48 with mode 5 and no index, or
\* with mode 2 and fewer than three components
TruncatedLists ==
  { <<c, <<"5">> >> : c \in Extended } \cup { <<c, <<"2">> >> : c \in Extended }
  \cup { <<c, <<"2">>, r>> : c \in Extended, r \in SubParams }
  \cup { <<c, <<"2">>, r, g>> : c \in Extended, r \in SubParams, g \in SubParams }
TruncatedChunks ==
  { pre \o SgrSeq(l) : pre \in PrefixSeqs, l \in TruncatedLists }

AnsiChunks ==
  MalformedChunks \cup ExtendedChunks \cup ResetChunks \cup StyledChunks
  \cup SgrFoldChunks \cup OscTitleChunks \cup OscOtherChunks \cup CsiChunks
  \cup PieceChunks \cup ResyncChunks \cup TruncatedChunks

InitAnsi == \E font \in Fonts, c \in AnsiChunks : InitWith(font, <<c>>)

AnsiStart ==
  /\ scheduled
  /\ scheduled' = FALSE
  /\ \E o \in StartOutcomes : StartProcess("/usr/bin/bash", NoPath, NoPath, o)
  /\ UNCHANGED envVars

\* read_stdout with the next chunk the child has written
AnsiRead ==
  /\ stream # <<>>
  /\ ReadStdout(Head(stream))
  /\ stream' = Tail(stream)

NextAnsi == AnsiStart \/ AnsiRead

SpecAnsi == InitAnsi /\ [][NextAnsi]_vars

\* the documented default StyleState
DefaultStyle ==
  [fg |-> "white", bg |-> "black", bold |-> FALSE, italic |-> FALSE,
   underline |-> FALSE]

\* the parameter list of a chunk that is one SGR sequence
ParamsOf(chunk) ==
  LET p == SubSeq(chunk, 3, Len(chunk) - 1)
  IN IF p = <<>> THEN << <<"0">> >> ELSE SplitSemi(p)

\* the codes applied one after the other, each token that is a number as
\* one code
RECURSIVE FoldCodes(_, _)
FoldCodes(f, parts) ==
  IF parts = <<>> THEN f
  ELSE FoldCodes(IF IsInt(Head(parts)) THEN ApplySgrCode(f, ParseInt(Head(parts)))
                 ELSE f,
                 Tail(parts))

EndsWith(t, suffix) ==
  Len(t) >= Len(suffix) /\ SubSeq(t, Len(t) - Len(suffix) + 1, Len(t)) = suffix

\* C17: whatever styling came before and whatever font the host configured,
\* the format after a chunk that ends with a reset (ESC[0m or ESC[m) is the
\* default StyleState.
C17_ResetYieldsDefault ==
  [][(/\ last'.kind = "stdout"
      /\ \/ EndsWith(last'.arg[1], SgrSeq(<< <<"0">> >>))
         \/ EndsWith(last'.arg[1], SgrSeq(<<>>))) =>
       current_format' = DefaultStyle]_vars

\* with a bold, italic, underlined font configured, ESC[1;31m ESC[0m has
\* left the default StyleState
C17_Witness ==
  /\ last.kind = "stdout"
  /\ last.arg = << SgrSeq(<< <<"1">>, <<"3", "1">> >>) \o SgrSeq(<< <<"0">> >>) >>
  /\ current_font.bold
  /\ current_format = DefaultStyle

\* C18: an SGR list with a token that is not a number (alone, directly after
\* 38 or 48, or as palette index) is rendered without failing, and the style
\* is the one obtained by applying every numeric token of the list in order.
C18_MalformedSkipped ==
  [][(last'.kind = "stdout" /\ last'.arg[1] \in MalformedChunks) =>
       /\ current_format' = FoldCodes(current_format, ParamsOf(last'.arg[1]))
       /\ text' = text]_vars

\* ESC[1;38;?;31m has been read: bold and the red foreground are both set
C18_Witness ==
  /\ last.kind = "stdout"
  /\ last.arg = << SgrSeq(<< <<"1">>, <<"3", "8">>, <<"?">>, <<"3", "1">> >>) >>
  /\ current_format = [DefaultStyle EXCEPT !.bold = TRUE, !.fg = "#CD0000"]

\* the list without its extended-colour group: the group starts at the first
\* 38 or 48 and has 3 tokens in mode 5, 5 tokens in mode 2
WithoutGroup(parts) ==
  LET k == CHOOSE j \in 1..Len(parts) :
             parts[j] \in Extended /\ \A h \in 1..(j - 1) : parts[h] \notin Extended
      n == IF parts[k + 1] = <<"5">> THEN 3 ELSE 5
  IN SubSeq(parts, 1, k - 1) \o SubSeq(parts, k + n, Len(parts))

\* C19: an SGR list holding 38 or 48 with 5 and an index, or with 2 and
\* three values, leaves the style obtained by applying the codes of the list
\* without that group, whatever the sub-parameters and the codes after it.
C19_ExtendedGroupSkipped ==
  [][(last'.kind = "stdout" /\ last'.arg[1] \in ExtendedChunks) =>
       current_format' =
         FoldCodes(current_format, WithoutGroup(ParamsOf(last'.arg[1])))]_vars

\* ESC[38;2;1;1;1;31m has been read: the three values set nothing, the code
\* after them set the foreground
C19_Witness ==
  /\ last.kind = "stdout"
  /\ last.arg = << SgrSeq(<< <<"3", "8">>, <<"2">>, <<"1">>, <<"1">>, <<"1">>,
                              <<"3", "1">> >>) >>
  /\ current_format = [DefaultStyle EXCEPT !.fg = "#CD0000"]

\* the events of a chunk made of text and SGR sequences, in stream order
RECURSIVE Events(_)
Events(s) ==
  IF s = <<>> THEN <<>>
  ELSE IF s[1] = ESC THEN
    LET j == RunEndNot(s, 1, {"m"}) IN
      << [type |-> "StyleChange", txt |-> <<>>,
          codes |-> IF j = 3 THEN << <<"0">> >> ELSE SplitSemi(SubSeq(s, 3, j - 1))] >>
      \o Events(SubSeq(s, j + 1, Len(s)))
  ELSE
    LET j == RunEndNot(s, 1, {ESC}) IN
      << [type |-> "TextRun", txt |-> SubSeq(s, 1, j - 1), codes |-> <<>>] >>
      \o Events(SubSeq(s, j, Len(s)))

\* the events applied one after the other to [text, fmt, runs]
RECURSIVE ApplyEvents(_, _)
ApplyEvents(acc, evs) ==
  IF evs = <<>> THEN acc
  ELSE LET e == Head(evs) IN
    ApplyEvents(
      IF e.type = "TextRun"
        THEN [acc EXCEPT !.text = acc.text \o e.txt,
                         !.runs = Append(acc.runs, [txt |-> e.txt, fmt |-> acc.fmt])]
        ELSE [acc EXCEPT !.fmt = FoldCodes(acc.fmt, e.codes)],
      Tail(evs))

HelloChunk == SgrSeq(<< <<"1">>, <<"3", "1">> >>) \o Hello \o SgrSeq(<< <<"0">> >>)

\* C20: the text runs and SGR sequences of a chunk take effect in stream
\* order, each run rendered with the style left by the sequences before it;
\* ESC[1;31m HELLO ESC[0m renders only HELLO, bold with foreground colour 31,
\* and leaves the default StyleState.
C20_StreamOrder ==
  [][(last'.kind = "stdout" /\ last'.arg[1] \in StyledChunks) =>
       LET acc == ApplyEvents([text |-> text, fmt |-> current_format, runs |-> <<>>],
                              Events(last'.arg[1]))
       IN /\ text' = acc.text
          /\ last'.runs = acc.runs
          /\ current_format' = acc.fmt
          /\ (last'.arg[1] = HelloChunk /\ current_format = DefaultStyle) =>
               /\ text' = text \o Hello
               /\ last'.runs =
                    << [txt |-> Hello,
                        fmt |-> [DefaultStyle EXCEPT !.bold = TRUE, !.fg = "#CD0000"]] >>
               /\ current_format' = DefaultStyle]_vars

\* the example chunk has been read: HELLO is on the display after the start
\* banner, rendered bold and in the palette colour of 31
C20_Witness ==
  /\ last.kind = "stdout"
  /\ last.arg = <<HelloChunk>>
  /\ text = MsgStarting \o Hello
  /\ last.runs = << [txt |-> Hello,
                      fmt |-> [DefaultStyle EXCEPT !.bold = TRUE, !.fg = "#CD0000"]] >>
  /\ current_format = DefaultStyle

\* the colour of entry i of the 16-entry palette, as the foreground codes
\* 30-37 and 90-97 give it
Palette(i) ==
  IF i < 8 THEN ANSI_SGR_CODES_TO_COLORS(30 + i)
  ELSE ANSI_SGR_CODES_TO_COLORS(90 + (i - 8))

\* the documented rule of one SGR code
DocApply(f, code) ==
  CASE code = 0 -> DefaultStyle
    [] code = 1 -> [f EXCEPT !.bold = TRUE]
    [] code = 22 -> [f EXCEPT !.bold = FALSE]
    [] code = 3 -> [f EXCEPT !.italic = TRUE]
    [] code = 23 -> [f EXCEPT !.italic = FALSE]
    [] code = 4 -> [f EXCEPT !.underline = TRUE]
    [] code = 24 -> [f EXCEPT !.underline = FALSE]
    [] code \in 30..37 -> [f EXCEPT !.fg = Palette(code - 30)]
    [] code \in 90..97 -> [f EXCEPT !.fg = Palette(8 + (code - 90))]
    [] code \in 40..47 -> [f EXCEPT !.bg = Palette(code - 40)]
    [] code \in 100..107 -> [f EXCEPT !.bg = Palette(8 + (code - 100))]
    [] code = 39 -> [f EXCEPT !.fg = "white"]
    [] code = 49 -> [f EXCEPT !.bg = "black"]
    [] OTHER -> f

\* the rules folded left to right over a list of numeric parameters; the
\* empty list counts as a single 0
RECURSIVE DocFoldFrom(_, _)
DocFoldFrom(f, l) ==
  IF l = <<>> THEN f
  ELSE DocFoldFrom(DocApply(f, ParseInt(Head(l))), Tail(l))

DocFold(f, l) == IF l = <<>> THEN DocApply(f, 0) ELSE DocFoldFrom(f, l)

\* the style left by the prefix of a chunk
AfterPrefix(f, pre) ==
  IF pre = <<>> THEN f
  ELSE [fg |-> "#CD0000", bg |-> "#00CD00", bold |-> TRUE, italic |-> TRUE,
        underline |-> TRUE]

\* C21: an SGR parameter list of codes other than 38 and 48 leaves the style
\* obtained by folding the documented rules left to right over it (0 resets,
\* 1/22, 3/23, 4/24 switch bold, italic, underline, 30-37 and 90-97 set only
\* the foreground, 40-47 and 100-107 only the background from the same
\* palette, 39 and 49 restore the defaults, any other code changes nothing),
\* and the empty list is a single 0.
C21_SgrFoldsRules ==
  [][(last'.kind = "stdout" /\ last'.arg[1] \in SgrFoldChunks) =>
       \A pre \in PrefixSeqs, l \in DocLists :
         last'.arg[1] = pre \o SgrSeq(l) =>
           current_format' = DocFold(AfterPrefix(current_format, pre), l)]_vars

\* after ESC[1;3;4;31;42m the list 104 has changed the background only, to
\* the colour 94 gives the foreground
C21_Witness ==
  /\ last.kind = "stdout"
  /\ last.arg = << StyledPrefix \o SgrSeq(<< <<"1", "0", "4">> >>) >>
  /\ current_format = [fg |-> "#CD0000", bg |-> "blue", bold |-> TRUE,
                       italic |-> TRUE, underline |-> TRUE]

\* C22: an OSC sequence ESC ] n ; text with n in {0, 1, 2}, terminated by
\* BEL or by ESC \, emits exactly one titleChanged carrying the payload as
\* written and renders no text.
C22_OscEmitsTitle ==
  [][(last'.kind = "stdout" /\ last'.arg[1] \in OscTitleChunks) =>
       \A n \in TitleNumbers, p \in OscPayloads, t \in OscTerminators :
         last'.arg[1] = OscSeq(n, p, t) =>
           /\ last'.titles = <<p>>
           /\ last'.runs = <<>>
           /\ text' = text]_vars

\* C23: an OSC sequence whose command number is not 0, 1 or 2 emits no
\* titleChanged and none of its characters is rendered as text.
C23_OtherOscConsumed ==
  [][(last'.kind = "stdout" /\ last'.arg[1] \in OscOtherChunks) =>
       /\ last'.titles = <<>>
       /\ last'.runs = <<>>
       /\ text' = text]_vars

\* C24: of the sequences ESC [ params H|J|K only J with parameter 2 is acted
\* on, clearing all rendered text; every other one is consumed and leaves the
\* rendered text as it was, the text around it being appended.
C24_OnlyClearScreenActs ==
  [][(last'.kind = "stdout" /\ last'.arg[1] \in CsiChunks) =>
       \A pre \in CsiPre, p \in CsiParams, c \in CsiFinals, post \in CsiPost :
         last'.arg[1] = pre \o CsiSeq(p, c) \o post =>
           IF c = "J" /\ p = <<"2">>
             THEN text' = post
             ELSE text' = text \o pre \o post]_vars

\* a ESC[2J b has cleared a document that was not empty and left b
C24_Witness ==
  /\ last.kind = "stdout"
  /\ last.arg = << <<"a">> \o CsiSeq(<<"2">>, "J") \o <<"b">> >>
  /\ text = <<"b">>

\* the pieces of a chunk that are not recognized sequences, in order
RECURSIVE Unrecognized(_)
Unrecognized(ps) ==
  IF ps = <<>> THEN <<>>
  ELSE IF Head(ps) \in RecognizedSeqs THEN Unrecognized(Tail(ps))
  ELSE Head(ps) \o Unrecognized(Tail(ps))

\* C25: for a chunk without a clear-screen sequence the text appended to the
\* document is the chunk with exactly its recognized escape sequences
\* removed, in the original order; an escape introducer that matches no known
\* form is rendered, with the characters after it, as ordinary text.
C25_TextIsChunkMinusSequences ==
  [][(last'.kind = "stdout" /\ last'.arg[1] \in PieceChunks) =>
       \A ps \in PieceLists :
         last'.arg[1] = Flatten(ps) => text' = text \o Unrecognized(ps)]_vars

\* ESC[5n has been rendered as text and the colour change after it removed
\* from the text and applied
C25_Witness ==
  /\ last.kind = "stdout"
  /\ last.arg = << <<ESC, "[", "5", "n">> \o SgrSeq(<< <<"3", "1">> >>) >>
  /\ Len(text) > 4
  /\ SubSeq(text, Len(text) - 3, Len(text)) = <<ESC, "[", "5", "n">>
  /\ current_format.fg = "#CD0000"

\* what a well-formed sequence does to the style f and the document txt,
\* and the titles it emits
GoodEffect(good, f, txt) ==
  CASE good = SgrSeq(<< <<"3", "1">> >>) ->
         [text |-> txt, fmt |-> [f EXCEPT !.fg = "#CD0000"], titles |-> <<>>]
    [] good = SgrSeq(<< <<"1">> >>) ->
         [text |-> txt, fmt |-> [f EXCEPT !.bold = TRUE], titles |-> <<>>]
    [] good \in {OscSeq(<<"0">>, <<"T">>, <<BEL>>),
                 OscSeq(<<"2">>, <<"T">>, <<ESC, "\\">>)} ->
         [text |-> txt, fmt |-> f, titles |-> << <<"T">> >>]
    [] good = CsiSeq(<<"2">>, "J") ->
         [text |-> <<>>, fmt |-> DefaultStyle, titles |-> <<>>]
    [] good = CsiSeq(<<>>, "K") ->
         [text |-> txt, fmt |-> f, titles |-> <<>>]

\* C26: a malformed or unrecognized escape sequence never prevents the
\* recognition of a later well-formed SGR, OSC-title or CSI H/J/K sequence of
\* the same chunk: the later sequence is applied as if it stood alone, after
\* the characters before it were rendered as text.
C26_Resynchronizes ==
  [][(last'.kind = "stdout" /\ last'.arg[1] \in ResyncChunks) =>
       \A bad \in BadSeqs, mid \in MidTexts, good \in GoodSeqs :
         last'.arg[1] = bad \o mid \o good =>
           LET r == GoodEffect(good, current_format, text \o bad \o mid) IN
             /\ text' = r.text
             /\ current_format' = r.fmt
             /\ last'.titles = r.titles]_vars

\* after an OSC title that was never terminated, a well-formed one has set
\* the title and the unterminated one was rendered as text
C26_Witness ==
  /\ last.kind = "stdout"
  /\ last.arg = << <<ESC, "]", "0", ";", "a">> \o OscSeq(<<"0">>, <<"T">>, <<BEL>>) >>
  /\ last.titles = << <<"T">> >>
  /\ Len(text) > 5
  /\ SubSeq(text, Len(text) - 4, Len(text)) = <<ESC, "]", "0", ";", "a">>

(* ---------------------------- owner of the style ---------------------- *)
\* one session whose child writes a style change followed by something that
\* is not an SGR sequence, while the host may apply a font at any time
FontStyleLists == { << <<"3", "1">> >>, << <<"1">>, <<"4", "2">> >> }
NonSgrPieces ==
  { <<"a">>, OscSeq(<<"0">>, <<"T">>, <<BEL>>), CsiSeq(<<"2">>, "J"),
    CsiSeq(<<>>, "K"), CsiSeq(<<"1", ";", "1">>, "H"), <<ESC, "(", "B">>,
    <<ESC, "M">>, <<ESC, "=">> }
FontChunks == { SgrSeq(l) \o x : l \in FontStyleLists, x \in NonSgrPieces }

InitFont == \E font \in Fonts, c \in FontChunks : InitWith(font, <<c>>)

FontStart ==
  /\ scheduled
  /\ scheduled' = FALSE
  /\ \E o \in StartOutcomes : StartProcess("/usr/bin/bash", NoPath, NoPath, o)
  /\ UNCHANGED envVars

FontRead ==
  /\ stream # <<>>
  /\ ReadStdout(Head(stream))
  /\ stream' = Tail(stream)

\* the font dialog accepted while the terminal is among self.terminals
FontApply ==
  /\ closed = "open"
  /\ \E font \in Fonts : ApplyFont(font)

NextFont == FontStart \/ FontRead \/ FontApply

SpecFont == InitFont /\ [][NextFont]_vars

\* C27: the style is changed by the SGR interpreter only: after a chunk made
\* of an SGR sequence and a piece of another kind (text, an OSC title, a CSI
\* cursor or erase sequence, clear-screen included, a charset or mode
\* sequence) the style is the one the SGR sequence gave, and the host
\* applying a font leaves the style as it was.
C27_OnlySgrChangesStyle ==
  [][/\ (last'.kind = "stdout" /\ last'.arg[1] \in FontChunks) =>
          \A l \in FontStyleLists, x \in NonSgrPieces :
            last'.arg[1] = SgrSeq(l) \o x =>
              current_format' = DocFoldFrom(current_format, l)
     /\ last'.kind = "apply_font" => current_format' = current_format]_vars

(* ---------------------------- shell discovery ------------------------- *)
\* what shutil.which can return for each candidate: nothing, the usual
\* place, or a place whose path has the letters bash in it
ShellBashPaths == {NoPath, "/usr/bin/bash", "C:/Program Files/Git/bin/bash.exe"}
ShellPowershellPaths ==
  {NoPath, "C:/WINDOWS/powershell.exe", "C:/Users/bashir/powershell.exe"}
ShellCmdPaths == {NoPath, "C:/WINDOWS/cmd.exe", "C:/tools/bash/cmd.exe"}

ShellStart ==
  /\ scheduled
  /\ scheduled' = FALSE
  /\ \E bash \in ShellBashPaths, ps \in ShellPowershellPaths,
        cmd \in ShellCmdPaths, o \in StartOutcomes :
       StartProcessNoted(bash, ps, cmd, o, <<bash, ps, cmd>>)
  /\ UNCHANGED envVars
ShellChildUp == ~scheduled /\ ChildComesUp
ShellExit ==
  /\ ~scheduled
  /\ \E st \in ExitStatuses : \E code \in ExitCodes(st) : ProcessFinished(st, code)

\* the shell that came up writes its prompt
ShellOutput ==
  /\ ReadStdout(<<"$">>)
  /\ Len(text') <= MaxLifeText
  /\ UNCHANGED stream

NextShell == ShellStart \/ ShellChildUp \/ ShellExit \/ ShellOutput

SpecShell == Init /\ [][NextShell]_vars

LoginFlags == <<"--login", "-i">>

\* C28: the shell started is the first one found in the order bash,
\* powershell.exe, cmd.exe; it gets the flags --login -i if and only if it is
\* bash, and a fallback shell gets no flags, whatever the path it was found
\* at; nothing is started when none is found.
C28_ShellDiscovery ==
  [][(last'.kind = "start" /\ Len(last'.arg) = 3) =>
       LET bash == last'.arg[1]
           ps == last'.arg[2]
           cmd == last'.arg[3]
           sp == last'.spawn
       IN IF bash # NoPath
            THEN sp = << [exe |-> bash, args |-> LoginFlags] >>
          ELSE IF ps # NoPath THEN sp = << [exe |-> ps, args |-> <<>>] >>
          ELSE IF cmd # NoPath THEN sp = << [exe |-> cmd, args |-> <<>>] >>
          ELSE sp = <<>>]_vars

(* ---------------------------- the line being typed -------------------- *)
\* w occurs in line as a run of consecutive characters
IsInfix(w, line) ==
  \E i \in 0..(Len(line) - Len(w)) : SubSeq(line, i + 1, i + Len(w)) = w

\* C29: characters typed but not yet submitted are not lost when output
\* arrives before Enter: when a chunk is rendered right after the user typed,
\* with the child running, the line that Enter would now write to the child
\* still contains everything that stood after the boundary.
C29_TypedSurvivesOutput ==
  [][(/\ last.kind = "char"
      /\ process_running
      /\ TextFrom(text, input_start_pos) # <<>>
      /\ last'.kind = "stdout") =>
       IsInfix(TextFrom(text, input_start_pos),
               SubmitLine(text', input_start_pos'))]_vars

\* C30: in every reachable state the boundary lies within the document.
C30_BoundaryInText == input_start_pos \in 0..Len(text)

\* C31: keyboard input is never blocked: with no selection active a
\* printable key appends its character at the end of the document, and Enter
\* with the child running writes a line to it.
C31_KeysNeverBlocked ==
  [][/\ (last'.kind = "char" /\ ~HasSelection) =>
          \E c \in Chars : text' = text \o <<c>>
     /\ (last'.kind = "enter" /\ ~HasSelection /\ process_running) =>
          Len(last'.writes) = 1]_vars

(* ---------------------------- output split into chunks ---------------- *)
\* one session whose child writes a stream that readyReadStandardOutput
\* delivers in two parts, cut at any place
SplitStreams ==
  { <<"a", "b">>,
    SgrSeq(<< <<"3", "1">> >>) \o <<"a">>,
    <<"a">> \o SgrSeq(<< <<"1">>, <<"4">> >>),
    OscSeq(<<"0">>, <<"T">>, <<BEL>>) \o <<"a">>,
    OscSeq(<<"2">>, <<"T">>, <<ESC, "\\">>),
    <<"a">> \o CsiSeq(<<"2">>, "J") \o <<"b">>,
    SgrSeq(<< <<"3", "8">>, <<"5">>, <<"1">> >>) \o <<"a">> }

InitSplit ==
  \E s \in SplitStreams : \E k \in 1..(Len(s) - 1) :
    InitWith(DEFAULT_FONT, <<SubSeq(s, 1, k), SubSeq(s, k + 1, Len(s))>>)

SplitStart ==
  /\ scheduled
  /\ scheduled' = FALSE
  /\ \E o \in StartOutcomes : StartProcess("/usr/bin/bash", NoPath, NoPath, o)
  /\ UNCHANGED envVars

\* read_stdout with the next part; the event keeps the document and the
\* style the part was rendered on
SplitRead ==
  /\ stream # <<>>
  /\ ReadStdoutNoted(Head(stream), <<text, current_format>>)
  /\ stream' = Tail(stream)

NextSplit == SplitStart \/ SplitRead

SpecSplit == InitSplit /\ [][NextSplit]_vars

\* C32: rendering does not depend on how the output is split into chunks:
\* after a has been read and then b, the document, the style and the titles
\* emitted are those of reading a ++ b as one chunk.
C32_SplitIndependent ==
  [][(last.kind = "stdout" /\ last'.kind = "stdout") =>
       LET whole == Render(last.arg[2], last.arg[3],
                           << last.arg[1] \o last'.arg[1] >>)
       IN /\ text' = whole.text
          /\ current_format' = whole.fmt
          /\ last.titles \o last'.titles = whole.titles]_vars

\* C33: once the close of a session has been handled, no later event of
\* that session starts a shell; in particular the start scheduled by the
\* constructor does not spawn a child when the session was closed before it
\* fired.
C33_NoSpawnAfterClose ==
  [][closed # "open" => last'.spawn = <<>>]_vars

\* C34: a truncated extended-colour group leaves the style unchanged: its
\* remaining sub-parameters are not read as SGR codes of their own.
C34_TruncatedGroupIgnored ==
  [][(last'.kind = "stdout" /\ last'.arg[1] \in TruncatedChunks) =>
       \A pre \in PrefixSeqs, l \in TruncatedLists :
         last'.arg[1] = pre \o SgrSeq(l) =>
           current_format' = AfterPrefix(current_format, pre)]_vars

(* ---------------------------- the first iteration (term3.py) ---------- *)
\* term3.py has no current_font: the reset sets the five fields outright
ResetCharFormat3 ==
  [fg |-> DEFAULT_FG_COLOR, bg |-> DEFAULT_BG_COLOR, bold |-> FALSE,
   italic |-> FALSE, underline |-> FALSE]

\* _apply_sgr_code of term3.py: no 22, 23, 24; 38 and 48 do nothing
ApplySgrCode3(f, code) ==
  IF code = 0 THEN ResetCharFormat3
  ELSE IF code = 1 THEN [f EXCEPT !.bold = TRUE]
  ELSE IF code = 3 THEN [f EXCEPT !.italic = TRUE]
  ELSE IF code = 4 THEN [f EXCEPT !.underline = TRUE]
  ELSE IF code \in ColorCodes THEN
    IF code \in 30..37 \/ code \in 90..97 \/ code = 39
      THEN [f EXCEPT !.fg = ANSI_SGR_CODES_TO_COLORS(code)]
    ELSE IF code \in 40..47 \/ code \in 100..107 \/ code = 49
      THEN [f EXCEPT !.bg = ANSI_SGR_CODES_TO_COLORS(code)]
    ELSE f
  ELSE f

\* "color_mode = int(parts[idx+1])" stands outside any try block
ExtendedRaises3(parts, idx) == idx + 1 <= Len(parts) /\ ~IsInt(parts[idx + 1])

ExtendedSkip3(parts, idx) ==
  IF idx + 1 <= Len(parts) THEN
    LET color_mode == ParseInt(parts[idx + 1]) IN
      IF color_mode = 5 /\ idx + 2 <= Len(parts) THEN 2
      ELSE IF color_mode = 2 /\ idx + 4 <= Len(parts) THEN 4
      ELSE 0
  ELSE 0

\* the while loop over parts; raised when ValueError leaves it
RECURSIVE SgrLoop3(_, _, _)
SgrLoop3(f, parts, idx) ==
  IF idx > Len(parts) THEN [fmt |-> f, raised |-> FALSE]
  ELSE LET part == parts[idx] IN
    IF Len(part) > 0 /\ ~IsInt(part) THEN SgrLoop3(f, parts, idx + 1)
    ELSE LET code == IF Len(part) = 0 THEN 0 ELSE ParseInt(part) IN
      IF code = 38 \/ code = 48
        THEN IF ExtendedRaises3(parts, idx) THEN [fmt |-> f, raised |-> TRUE]
             ELSE SgrLoop3(f, parts, idx + ExtendedSkip3(parts, idx) + 1)
        ELSE SgrLoop3(ApplySgrCode3(f, code), parts, idx + 1)

\* d = [text, fmt, titles, raised]; CSI sequences are matched and dropped,
\* clear-screen included
ApplyMatch3(d, m) ==
  IF m.kind = "sgr"
    THEN LET r == SgrLoop3(d.fmt, SgrParts(m.p), 1)
         IN [d EXCEPT !.fmt = r.fmt, !.raised = r.raised]
  ELSE IF m.kind = "osc" /\ Len(m.c) > 0
    THEN [d EXCEPT !.titles = Append(d.titles, m.c)]
  ELSE d

\* the exception leaves append_ansi_text at once: what was inserted stays,
\* the rest of the chunk is not rendered
RECURSIVE RenderFrom3(_, _, _)
RenderFrom3(d, s, lastEnd) ==
  LET i == NextMatch(s, lastEnd) IN
    IF i = 0
      THEN [d EXCEPT !.text = d.text \o SubSeq(s, lastEnd, Len(s))]
      ELSE LET m == MatchAt(s, i)
               d1 == ApplyMatch3([d EXCEPT !.text = d.text \o SubSeq(s, lastEnd, i - 1)], m)
           IN IF d1.raised THEN d1 ELSE RenderFrom3(d1, s, m.end)

Render3(txt, fmt, chunk) ==
  RenderFrom3([text |-> txt, fmt |-> fmt, titles |-> <<>>, raised |-> FALSE],
              chunk, 1)

\* read_stdout of term3.py; when ValueError escapes, the last statement of
\* append_ansi_text, which moves the boundary, is not reached
ReadStdout3(chunk) ==
  LET d == Render3(text, current_format, chunk) IN
    /\ proc_state = "Running"
    /\ text' = d.text
    /\ current_format' = d.fmt
    /\ cursor_pos' = Len(d.text)
    /\ cursor_anchor' = Len(d.text)
    /\ input_start_pos' = IF d.raised THEN input_start_pos ELSE Len(d.text)
    /\ last' = [EvArg("stdout", <<chunk>>, <<>>,
                      IF d.raised THEN <<"ValueError">> ELSE <<>>, <<>>)
                 EXCEPT !.titles = d.titles]
    /\ UNCHANGED <<supVars, now, ghostVars, scheduled, closed, current_font>>

\* keyPressEvent of term3.py on a document t with boundary b and style f:
\* Ctrl+C first, then the caret goes to End whatever is selected, then
\* Backspace, Enter, and every other key handed to QTextEdit
KeyPress3(kind, ins, t, b, f, running) ==
  LET same == [text |-> t, boundary |-> b, fmt |-> f, writes |-> <<>>,
               diags |-> <<>>]
  IN
  IF kind = "ctrl_c" THEN
    [same EXCEPT !.writes = IF running THEN << <<"\\x03">> >> ELSE <<>>]
  ELSE IF kind = "backspace" THEN
    IF Len(t) > b THEN [same EXCEPT !.text = SubSeq(t, 1, Len(t) - 1)]
    ELSE same
  ELSE IF kind = "enter" THEN
    IF running
      THEN [same EXCEPT !.writes = <<SubmitLine(t, b)>>,
                        !.text = t \o <<NL>>, !.boundary = Len(t) + 1]
      ELSE LET d == Render3(t, f, MsgShellNotRunning)
           IN [same EXCEPT !.diags = <<"ShellNotRunning">>,
                           !.text = d.text \o <<NL>>, !.fmt = d.fmt,
                           !.boundary = Len(d.text) + 1]
  ELSE IF kind \in {"char", "paste"} THEN [same EXCEPT !.text = t \o ins]
  ELSE same

\* one session of term3.py whose child writes one chunk and may exit
Term3Lists ==
  BadItems \cup TruncatedLists
  \cup { << <<"1">> >>, << <<"3", "8">>, <<"5">>, <<"1">> >>,
         << <<"3", "8">>, <<"2">>, <<"1">> >>, << <<"3", "8">>, <<>> >> }
Term3Chunks ==
  { SgrSeq(l) \o post : l \in Term3Lists, post \in {<<>>, <<"$">>} }
  \cup { <<"$">>, ClearScreen }

Init3 == \E c \in Term3Chunks : InitWith(DEFAULT_FONT, <<c>>)

\* start_process and process_finished of term3.py are those of term66.py
\* statement for statement, and their messages hold SGR colours only

Start3 ==
  /\ scheduled
  /\ scheduled' = FALSE
  /\ \E o \in StartOutcomes : StartProcess("/usr/bin/bash", NoPath, NoPath, o)
  /\ UNCHANGED envVars
Read3 ==
  /\ stream # <<>>
  /\ ReadStdout3(Head(stream))
  /\ stream' = Tail(stream)
Exit3 ==
  /\ ~scheduled
  /\ \E st \in ExitStatuses : \E code \in ExitCodes(st) : ProcessFinished(st, code)

Next3 == Start3 \/ Read3 \/ Exit3

Spec3 == Init3 /\ [][Next3]_vars

\* C35: in term3.py append_ansi_text raises for no chunk: no exception
\* escapes into read_stdout, whatever the SGR list holds.
C35_Term3NeverRaises ==
  [][last'.kind = "stdout" => last'.diags = <<>>]_vars

\* the step called append_ansi_text: output of the child, its exit, a
\* diagnostic, or the notice of a start
Rendered(ev) ==
  ev.kind \in {"stdout", "finished"} \/ ev.diags # <<>> \/ ev.spawn # <<>>

\* C36: after any output chunk or diagnostic has been rendered the boundary
\* equals the length of the document, whatever the boundary and the caret
\* were before.
C36_BoundaryAtEndAfterOutput ==
  [][Rendered(last') => input_start_pos' = Len(text')]_vars

\* a chunk arrived while a typed character stood after the boundary and the
\* caret was off the end, in a selection; the boundary is now at the end
C36_Witness ==
  /\ last.kind = "stdout"
  /\ last.sel
  /\ text = <<"Starting", NL, "a", "$">>
  /\ input_start_pos = 4

\* C37: a start request on a session that is Running changes nothing: no
\* child is spawned, no text is rendered, the restart counter and the time of
\* the last start stay as they were, and so do the boundary, the style and
\* the handle of the child.
StartRequest(ev) == ev.kind \in {"start", "start_noop"}
C37_StartWhileRunningNoop ==
  [][(StartRequest(last') /\ process_running) =>
       /\ last'.spawn = <<>>
       /\ last'.diags = <<>>
       /\ text' = text
       /\ input_start_pos' = input_start_pos
       /\ current_format' = current_format
       /\ restart_count' = restart_count
       /\ last_started' = last_started
       /\ process_running' /\ proc_state' = proc_state]_vars
C37_Witness ==
  /\ last.kind = "start_noop"
  /\ process_running /\ proc_state = "Running"
  /\ restart_count > 0 /\ now > last_started

\* C38: an OSC sequence with command number 0, 1 or 2 and an empty payload,
\* terminated by BEL or by ESC \, emits one titleChanged whose text is empty
\* (the window then shows the identifier of the session), and renders nothing.
EmptyTitleSeqs == {OscSeq(n, <<>>, t) : n \in TitleNumbers, t \in OscTerminators}
C38_EmptyTitleEmitted ==
  [][(last'.kind = "stdout" /\ last'.arg[1] \in EmptyTitleSeqs) =>
       /\ last'.titles = << <<>> >>
       /\ text' = text]_vars

\* the session at the keyboard with no mouse: keys and output only, so that
\* no selection is ever active
NextKeys ==
  \/ ScheduledStart \/ Finished \/ Output
  \/ CtrlC \/ Backspace \/ Delete \/ Type \/ Paste \/ Enter

SpecKeys == Init /\ [][NextKeys]_vars

\* what term3.py makes of the event that term66.py has just handled, from
\* the same document, boundary and state of the child
Inserted(kind) ==
  IF kind = "char" THEN {<<c>> : c \in Chars}
  ELSE IF kind = "paste" THEN Clips
  ELSE {<<>>}
SameAsTerm3(r) ==
  /\ text' = r.text
  /\ input_start_pos' = r.boundary
  /\ last'.writes = r.writes

\* C39: with no selection ever active, each key event and each output chunk
\* leaves term66.py with the rendered text, the boundary and the writes to
\* the child that term3.py produces from the same state.
C39_KeysRefineTerm3 ==
  [][/\ (last'.kind \in KeyKinds \cup {"ctrl_c"} /\ ~HasSelection) =>
          \E ins \in Inserted(last'.kind) :
            SameAsTerm3(KeyPress3(last'.kind, ins, text, input_start_pos,
                                  current_format, process_running))
     /\ (last'.kind = "stdout" /\ ~HasSelection) =>
          LET d == Render3(text, current_format, last'.arg[1])
          IN SameAsTerm3([text |-> d.text, boundary |-> Len(d.text),
                          writes |-> <<>>])]_vars

(* ---------------------------- closing a session ---------------------- *)
\* C11: every close of a session (tab close, window close) sends the
\* termination signal whenever the child is alive and leaves no child of the
\* session alive, also when the start confirmation had timed out and the
\* session was not Running while the child was coming up.
C11_CloseLeavesNoChild ==
  [][last'.kind = "close" =>
       /\ (proc_state # "NotRunning" => last'.arg[2])
       /\ proc_state' = "NotRunning"]_vars

(* ---------------------------- notifications of the child -------------- *)
\* C12: once a process-error notification has been handled the session is
\* not Running and the display ends with the diagnostic naming the cause, and
\* an Enter or send_command handled next writes nothing and renders a
\* diagnostic.
C12_ErrorLeavesFailed ==
  [][/\ last'.kind = "error" =>
          (~process_running' /\ EndsWithLine(text', "ProcessError", <<>>))
     /\ (last.kind = "error" /\ last'.kind \in {"enter", "send_command"}) =>
          (last'.writes = <<>> /\ last'.diags # <<>>)]_vars

\* C13: handling the child's exit (normal or crash) appends a line naming
\* the exit status and the exit code and leaves the session not Running; the
\* session becomes Running again only by a start attempt that is confirmed.
C13_ExitReported ==
  [][/\ last'.kind = "finished" =>
          /\ ~process_running'
          /\ IsPrefix(text, text')
          /\ EndsWithLine(text', ExitGlyph(last'.arg[1], last'.arg[2]), <<>>)
     /\ (~process_running /\ process_running') =>
          /\ last'.kind = "start"
          /\ last'.diags = <<>>
          /\ proc_state' = "Running"]_vars

\* a crash with code 9 of a Running session has been reported, and the
\* session is not Running
C13_Witness ==
  /\ last.kind = "finished"
  /\ last.running
  /\ last.arg = <<"crashed", 9>>
  /\ ~process_running
  /\ EndsWithLine(text, "crashed with code 9", <<>>)

\* C14: handling a child-exit or process-error notification issues no spawn
\* and touches no restart bookkeeping; a child is spawned only by a start
\* request, and only by one the throttle test (less than 2 time-units after
\* last_started with more than 3 rapid attempts counted) lets through.
C14_NoAutoRestart ==
  [][/\ last'.kind \in {"finished", "error"} =>
          /\ last'.spawn = <<>>
          /\ proc_state' \in {proc_state, "NotRunning"}
          /\ restart_count' = restart_count
          /\ last_started' = last_started
     /\ last'.spawn # <<>> =>
          /\ last'.kind = "start"
          /\ ~process_running
          /\ ~(/\ 0 < now - last_started
               /\ now - last_started < RestartWindow
               /\ restart_count + 1 > MaxRestarts)
          /\ last_started' = now]_vars

\* after the child has exited a later start request has spawned a new child
C14_Witness ==
  /\ last.kind = "start"
  /\ Len(last.spawn) = 1
  /\ \E k \in 1..Len(text) :
       text[k] \in {"finished with code 0", "finished with code 1",
                    "crashed with code 9"}

(* ---------------------------- interrupt and injection ---------------- *)
\* C15: Ctrl+C with a selection is handed to the editor to copy and writes
\* nothing; with no selection and the session Running it writes exactly the
\* byte 0x03; with the session not Running it writes nothing and changes
\* neither the rendered text nor input_boundary.
C15_InterruptKey ==
  [][last'.kind = "ctrl_c" =>
       /\ HasSelection => (last'.writes = <<>> /\ last'.arg = <<TRUE>>)
       /\ (~HasSelection /\ process_running) => last'.writes = << <<"\\x03">> >>
       /\ ~process_running =>
            /\ last'.writes = <<>>
            /\ text' = text
            /\ input_start_pos' = input_start_pos]_vars

\* Ctrl+C pressed with text selected while the session was Running: copied,
\* nothing written
C15_Witness ==
  /\ last.kind = "ctrl_c"
  /\ last.running
  /\ last.sel
  /\ last.arg = <<TRUE>>
  /\ last.writes = <<>>

\* C16: send_command on a Running session makes one write, the command
\* followed by a newline exactly when append_enter is set, and leaves the
\* rendered text and input_boundary as they were.
C16_SendWritesCommand ==
  [][(last'.kind = "send_command" /\ process_running) =>
       /\ last'.writes =
            << last'.arg[1] \o (IF last'.arg[2] THEN <<NL>> ELSE <<>>) >>
       /\ text' = text
       /\ input_start_pos' = input_start_pos]_vars

\* a command has been sent without a newline to a Running session whose
\* display holds typed text after the boundary
C16_Witness ==
  /\ last.kind = "send_command"
  /\ last.running
  /\ last.arg = << <<"l", "s">>, FALSE >>
  /\ last.writes = << <<"l", "s">> >>
  /\ Len(text) > input_start_pos

====
